---------------------------- MODULE Spec2Model ----------------------------
(***************************************************************************)
(* Model of the intent-routed workflow engine of the conversational agent. *)
(* Two implementations of the workflow live in the repository:             *)
(*   "workflow" : src/langgraph_agent_workflow.py (LangGraph state graph)  *)
(*   "api"      : src/api/index.py (hand-written dispatch)                 *)
(* One behaviour of the model is one call of process_user_message.         *)
(***************************************************************************)
EXTENDS Integers, Sequences, FiniteSets, TLC

VARIABLES impl, pc, state, local, llmCalls, toolCalls, handlers, updates, envelope,
          genai_api_key

vars == <<impl, pc, state, local, llmCalls, toolCalls, handlers, updates, envelope,
          genai_api_key>>

(***************************************************************************)
(* Bounds of the model.                                                    *)
(***************************************************************************)
\* longest LLM completion, in tokens
MaxTextLen == 3

BoundedSeq(S, n) == UNION {[1..k -> S] : k \in 0..n}

(***************************************************************************)
(* JSON values as Python holds them after json.loads: a pair <<tag, v>>.   *)
(* Integers are kept as decimal numerals (order ids exceed 32 bits).       *)
(* A dict is an insertion-ordered sequence of <<key, value>> pairs.        *)
(***************************************************************************)
JStr(s) == <<"str", s>>
JInt(n) == <<"int", n>>
JFloat(x) == <<"float", x>>
JBool(b) == <<"bool", b>>
JNull == <<"null", "">>
JList(xs) == <<"list", xs>>
JObj(ps) == <<"obj", ps>>

IsDict(v) == v[1] = "obj"
Keys(d) == {d[2][i][1] : i \in 1..Len(d[2])}
\* k in d
Has(d, k) == k \in Keys(d)
\* d[k], for a key that is present
Lookup(d, k) == d[2][CHOOSE i \in 1..Len(d[2]) : d[2][i][1] = k][2]
\* d.get(k, default)
Get(d, k, default) == IF Has(d, k) THEN Lookup(d, k) ELSE default
\* d[k] = v on a dict: replace in place, or append
SetItem(d, k, v) ==
    IF Has(d, k)
    THEN JObj([i \in 1..Len(d[2]) |-> IF d[2][i][1] = k THEN <<k, v>> ELSE d[2][i]])
    ELSE JObj(Append(d[2], <<k, v>>))
\* setdefault replacing a value that is already there
SetDefault_overwriting(d, k, v) == SetItem(d, k, v)

\* d.setdefault(k, v)
SetDefault(d, k, v) == IF Has(d, k) THEN d ELSE SetItem(d, k, v)

\* Python truth value of a JSON value
Truthy(v) ==
    CASE v[1] = "bool" -> v[2]
      [] v[1] = "null" -> FALSE
      [] v[1] = "int" -> v[2] # "0"
      [] v[1] = "float" -> v[2] # "0.0"
      [] v[1] = "str" -> v[2] # ""
      [] OTHER -> Len(v[2]) > 0

(***************************************************************************)
(* Text produced by the LLM or by json.dumps, as a sequence of tokens:     *)
(* a code fence with its language tag, an opening brace, a closing brace,  *)
(* a run of prose, a run of spaces and newlines, the member list of a JSON *)
(* object, or a JSON literal that is not an object.                        *)
(***************************************************************************)
FENCE == <<"fence", "">>
LB == <<"lb", "">>
RB == <<"rb", "">>
PROSE == <<"prose", "">>
WS == <<"ws", "">>
Members(ps) == <<"members", ps>>
Literal(v) == <<"literal", v>>

Punctuation == {FENCE, WS, LB, RB, PROSE}

\* the completions the model can return when its member lists are drawn from bodies
Texts(bodies) == BoundedSeq(Punctuation \cup {Members(b) : b \in bodies}, MaxTextLen)

\* the dict Python builds from a member list: a repeated key keeps its first
\* position and takes its last value
RECURSIVE dict_from_pairs(_, _)
dict_from_pairs(d, ps) ==
    IF Len(ps) = 0 THEN d
    ELSE dict_from_pairs(SetItem(d, Head(ps)[1], Head(ps)[2]), Tail(ps))

\* json.loads(text): [ok, value]; ok = FALSE stands for JSONDecodeError
json_loads(text) ==
    LET t == SelectSeq(text, LAMBDA x : x[1] # "ws")
    IN IF Len(t) = 2 /\ t[1] = LB /\ t[2] = RB
       THEN [ok |-> TRUE, value |-> JObj(<<>>)]
       ELSE IF Len(t) = 3 /\ t[1] = LB /\ t[2][1] = "members" /\ t[3] = RB
       THEN [ok |-> TRUE, value |-> dict_from_pairs(JObj(<<>>), t[2][2])]
       ELSE IF Len(t) = 1 /\ t[1][1] = "literal"
       THEN [ok |-> TRUE, value |-> t[1][2]]
       ELSE [ok |-> FALSE, value |-> JNull]

\* json.dumps(value)
json_dumps(v) ==
    IF IsDict(v)
    THEN (IF Len(v[2]) = 0 THEN <<LB, RB>> ELSE <<LB, Members(v[2]), RB>>)
    ELSE <<Literal(v)>>

\* re.sub(r"```[a-zA-Z]*", "", text)
re_sub_fences(t) == SelectSeq(t, LAMBDA x : x[1] # "fence")

RECURSIVE lstrip(_)
lstrip(t) == IF Len(t) > 0 /\ Head(t)[1] = "ws" THEN lstrip(Tail(t)) ELSE t
RECURSIVE rstrip(_)
rstrip(t) ==
    IF Len(t) > 0 /\ t[Len(t)][1] = "ws" THEN rstrip(SubSeq(t, 1, Len(t) - 1)) ELSE t
\* text.strip("` \n") and text.strip(): the fences are gone before the first is
\* applied, so both strip the runs of spaces and newlines at the two ends
strip(t) == rstrip(lstrip(t))
py_strip(t) == rstrip(lstrip(t))

Min(S) == CHOOSE x \in S : \A y \in S : x <= y
Max(S) == CHOOSE x \in S : \A y \in S : x >= y
Positions(t, tag) == {i \in 1..Len(t) : t[i][1] = tag}

\* re.search(r"\{.*\}", text, re.DOTALL): greedy, first "{" to the last "}" after it
re_search_braces(t) ==
    LET opens == Positions(t, "lb")
        closes == IF opens = {} THEN {} ELSE {j \in Positions(t, "rb") : j > Min(opens)}
    IN IF closes = {}
       THEN [found |-> FALSE, group |-> <<>>]
       ELSE [found |-> TRUE, group |-> SubSeq(t, Min(opens), Max(closes))]

\* The scan-and-parse every regex call site repeats: kind is "nomatch" when
\* json_match is None, "raise" when json.loads raises, "dict" otherwise.
extract_json(t) ==
    LET m == re_search_braces(strip(re_sub_fences(t)))
        parsed == json_loads(m.group)
    IN IF ~m.found THEN [kind |-> "nomatch", value |-> JNull]
       ELSE IF ~parsed.ok THEN [kind |-> "raise", value |-> JNull]
       ELSE [kind |-> "dict", value |-> parsed.value]

\* llm_out[start:end+1] with start = find('{'), end = rfind('}'), then json.loads
find_braces_json(t) ==
    LET opens == Positions(t, "lb")
        closes == Positions(t, "rb")
    IN IF Len(t) = 0 \/ opens = {} \/ closes = {}
       THEN [kind |-> "nomatch", value |-> JNull]
       ELSE LET parsed == json_loads(SubSeq(t, Min(opens), Max(closes)))
            IN IF parsed.ok THEN [kind |-> "dict", value |-> parsed.value]
               ELSE [kind |-> "raise", value |-> JNull]

(***************************************************************************)
(* Language-Model Gateway.  A response of the backend is either an         *)
(* exception (missing key, network) or a completion text.                  *)
(***************************************************************************)
\* The API key the process-wide genai client is configured with: the module
\* constant GEMINI_API_KEY for call_gemini_llm, and for info_search_node the
\* value of GOOGLE_API_KEY or, without it, of GEMINI_API_KEY in the environment.
GEMINI_API_KEY == "gemini-key"
GoogleKeys == {"gemini-key", "google-key"}

LLMResponses(bodies) ==
    {[kind |-> "raise", text |-> <<>>, parts |-> <<>>]}
    \cup {[kind |-> "text", text |-> t, parts |-> <<>>] : t \in Texts(bodies)}

\* Every way one call of the backend can end: no API key ("no_key"), configure or
\* generate_content raising ("raise"), response.text raising ("blocked"), a
\* response with text and candidate parts ("text"), and a response without text
\* whose candidates cannot be walked ("parts_raise").  A part without text is <<>>.
GeminiOutcomes ==
    LLMResponses({})
    \cup {[kind |-> k, text |-> <<>>, parts |-> <<>>] : k \in {"no_key", "blocked", "parts_raise"}}
    \cup {[kind |-> "text", text |-> t, parts |-> ps] :
            t \in {<<>>, <<PROSE>>},
            ps \in BoundedSeq({<<>>, <<PROSE>>, <<LB, RB>>}, MaxTextLen - 1)}

\* "\n".join of the parts that have text
RECURSIVE join_parts(_)
join_parts(ps) ==
    IF Len(ps) = 0 THEN <<>>
    ELSE LET rest == join_parts(Tail(ps))
         IN IF Len(Head(ps)) = 0 THEN rest
            ELSE IF Len(rest) = 0 THEN Head(ps)
            ELSE Head(ps) \o <<WS>> \o rest

\* call_gemini_llm answering a failed call with an apology text
call_gemini_llm_apologizes(resp) ==
    IF resp.kind # "text" THEN <<PROSE>>
    ELSE IF Len(resp.text) > 0 THEN resp.text
    ELSE join_parts(resp.parts)

call_gemini_llm(resp) ==
    IF resp.kind \in {"no_key", "raise", "blocked"} THEN <<>>
    ELSE IF Len(resp.text) > 0 THEN resp.text
    ELSE IF resp.kind = "parts_raise" THEN <<>>
    ELSE join_parts(resp.parts)

(***************************************************************************)
(* User messages: strings as sequences of characters.                      *)
(***************************************************************************)
UpperCase == <<"A", "B", "C", "D", "E", "F", "G", "H", "I", "J", "K", "L", "M",
               "N", "O", "P", "Q", "R", "S", "T", "U", "V", "W", "X", "Y", "Z">>
LowerCase == <<"a", "b", "c", "d", "e", "f", "g", "h", "i", "j", "k", "l", "m",
               "n", "o", "p", "q", "r", "s", "t", "u", "v", "w", "x", "y", "z">>
lower_char(c) ==
    IF \E i \in 1..Len(UpperCase) : UpperCase[i] = c
    THEN LowerCase[CHOOSE i \in 1..Len(UpperCase) : UpperCase[i] = c]
    ELSE c
\* str.lower()
lower(s) == [i \in 1..Len(s) |-> lower_char(s[i])]
\* word in s
Contains(word, s) ==
    \E i \in 1..(Len(s) - Len(word) + 1) : SubSeq(s, i, i + Len(word) - 1) = word
\* any(word in s for word in words)
AnyIn(words, s) == \E k \in 1..Len(words) : Contains(words[k], s)

MsgStatusOfOrder ==
    <<"W", "h", "a", "t", "'", "s", " ", "t", "h", "e", " ", "s", "t", "a", "t", "u", "s",
      " ", "o", "f", " ", "o", "r", "d", "e", "r", " ", "5", "9", "0", "4", "2", "4", "2",
      "3", "4", "4", "0", "1", "9", "?">>
MsgBuyRefund ==
    <<"b", "u", "y", " ", "m", "e", " ", "a", " ", "r", "e", "f", "u", "n", "d">>
MsgReturnPolicy ==
    <<"W", "h", "a", "t", " ", "i", "s", " ", "y", "o", "u", "r", " ", "r", "e", "t", "u",
      "r", "n", " ", "p", "o", "l", "i", "c", "y", "?">>
MsgShirtsUnder == <<"s", "h", "i", "r", "t", "s", " ", "u", "n", "d", "e", "r", " ", "2", "0", "0", "0">>
MsgTrackParcel == <<"T", "r", "a", "c", "k", " ", "m", "y", " ", "p", "a", "r", "c", "e", "l">>
MsgAddToCart ==
    <<"A", "d", "d", " ", "t", "o", " ", "c", "a", "r", "t", " ", "p", "l", "e", "a", "s", "e">>
\* "deals under <rupee sign>500": the rupee sign is the one character "U+20B9"
MsgRupeeDeals ==
    <<"d", "e", "a", "l", "s", " ", "u", "n", "d", "e", "r", " ", "U+20B9", "5", "0", "0">>
NamedMessages ==
    {MsgStatusOfOrder, MsgBuyRefund, MsgReturnPolicy, MsgShirtsUnder, MsgTrackParcel,
     MsgAddToCart, MsgRupeeDeals, <<>>}

\* print(text) on a standard output of the given encoding raises
\* UnicodeEncodeError when the encoding lacks a character of the text
StdoutEncodings == {"utf-8", "cp1252"}
print_raises(encoding, text) ==
    encoding # "utf-8" /\ \E i \in 1..Len(text) : text[i] = "U+20B9"

\* further messages: upper case, a keyword inside a longer word, a status keyword
\* together with an info keyword
ExtraMessages ==
    {<<"B", "U", "Y">>, <<"r", "e", "s", "a", "l", "e">>,
     <<"r", "e", "f", "u", "n", "d", " ", "s", "t", "a", "t", "u", "s">>}
Messages == NamedMessages \cup ExtraMessages

(***************************************************************************)
(* Intent Classifier.                                                      *)
(***************************************************************************)
OrderCreationKeywords ==
    <<<<"b", "u", "y">>, <<"p", "u", "r", "c", "h", "a", "s", "e">>,
      <<"o", "r", "d", "e", "r">>,
      <<"a", "d", "d", " ", "t", "o", " ", "c", "a", "r", "t">>>>
OrderStatusKeywords ==
    <<<<"t", "r", "a", "c", "k">>, <<"s", "t", "a", "t", "u", "s">>,
      <<"o", "r", "d", "e", "r", " ", "i", "d">>,
      <<"t", "r", "a", "c", "k", "i", "n", "g">>>>
InfoKeywords ==
    <<<<"r", "e", "t", "u", "r", "n">>, <<"r", "e", "f", "u", "n", "d">>,
      <<"e", "x", "c", "h", "a", "n", "g", "e">>, <<"c", "o", "n", "t", "a", "c", "t">>,
      <<"p", "h", "o", "n", "e">>, <<"e", "m", "a", "i", "l">>,
      <<"s", "u", "p", "p", "o", "r", "t">>, <<"a", "d", "d", "r", "e", "s", "s">>,
      <<"o", "f", "f", "e", "r">>, <<"d", "i", "s", "c", "o", "u", "n", "t">>,
      <<"s", "a", "l", "e">>, <<"p", "r", "o", "m", "o", "t", "i", "o", "n">>,
      <<"d", "e", "a", "l">>>>

\* fallback_intent with the info keywords tried before the order keywords
fallback_intent_info_first(user_message) ==
    LET message_lower == lower(user_message)
    IN IF AnyIn(InfoKeywords, message_lower) THEN "info_search"
       ELSE IF AnyIn(OrderCreationKeywords, message_lower) THEN "order_creation"
       ELSE IF AnyIn(OrderStatusKeywords, message_lower) THEN "order_status"
       ELSE "product_search"

\* the "Fallback intent analysis" branch of analyze_user_intent
fallback_intent(user_message) ==
    LET message_lower == lower(user_message)
    IN IF AnyIn(OrderCreationKeywords, message_lower) THEN "order_creation"
       ELSE IF AnyIn(OrderStatusKeywords, message_lower) THEN "order_status"
       ELSE IF AnyIn(InfoKeywords, message_lower) THEN "info_search"
       ELSE "product_search"

\* member lists the classification completion is drawn from
IntentBodies ==
    {<<<<"intent", JStr("product_search")>>>>,
     <<<<"intent", JStr("order_creation")>>, <<"confidence", JFloat("0.9")>>>>,
     <<<<"intent", JStr("order_status")>>,
       <<"details", JObj(<<<<"extracted_info", JStr("order 5904242344019")>>>>)>>>>,
     <<<<"intent", JStr("info_search")>>>>,
     <<<<"intent", JStr("greeting")>>>>,
     <<<<"confidence", JFloat("0.5")>>>>}

\* analyze_user_intent asking the keywords when the object has no intent key
analyze_user_intent_keywords_for_missing(s, llm_out) ==
    LET p == extract_json(llm_out)
    IN IF p.kind = "dict" /\ Has(p.value, "intent")
       THEN [fallback |-> FALSE,
             update |-> [intent |-> Lookup(p.value, "intent"),
                         intent_details |-> Get(p.value, "details", JObj(<<>>))]]
       ELSE [fallback |-> TRUE,
             update |-> [intent |-> JStr(fallback_intent(s.user_message)),
                         intent_details |-> JObj(<<>>)]]

\* analyze_user_intent: the state update it returns, and whether the keyword
\* fallback produced it
analyze_user_intent(s, llm_out) ==
    LET p == extract_json(llm_out)
    IN IF p.kind = "dict"
       THEN [fallback |-> FALSE,
             update |-> [intent |-> Get(p.value, "intent", JStr("product_search")),
                         intent_details |-> Get(p.value, "details", JObj(<<>>))]]
       ELSE [fallback |-> TRUE,
             update |-> [intent |-> JStr(fallback_intent(s.user_message)),
                         intent_details |-> JObj(<<>>)]]

\* route_by_intent with an unrecognized intent sent to the info handler
route_by_intent_default_info(s) ==
    LET intent == IF "intent" \in DOMAIN s THEN s.intent ELSE JStr("product_search")
    IN IF intent = JStr("order_creation") THEN "order_creation"
       ELSE IF intent = JStr("order_status") THEN "order_status"
       ELSE IF intent = JStr("product_search") THEN "product_search"
       ELSE "info_search"

\* route_by_intent (workflow) and the if/elif chain of process_user_message (api)
route_by_intent(s) ==
    LET intent == IF "intent" \in DOMAIN s THEN s.intent ELSE JStr("product_search")
    IN IF intent = JStr("order_creation") THEN "order_creation"
       ELSE IF intent = JStr("order_status") THEN "order_status"
       ELSE IF intent = JStr("info_search") THEN "info_search"
       ELSE "product_search"

(***************************************************************************)
(* Further string-valued data: a string modelled at token level (JText),   *)
(* a user message (JMsg), and an f-string of a fixed prefix and a value    *)
(* (JFmt).                                                                 *)
(***************************************************************************)
JText(t) == <<"text", t>>
JMsg(m) == <<"msg", m>>
JFmt(prefix, v) == <<"fstr", <<prefix, v>>>>

\* isinstance(v, dict) for any Python value of the model
isinstance_dict(v) == v[1] = "obj"

(***************************************************************************)
(* Tool Gateway.  What requests.post can come back with: a transport       *)
(* exception, a non-2xx status, a body that is not JSON, or a JSON body.   *)
(***************************************************************************)
PRODUCT_SEARCH_MCP_URL == "https://n5ycpj-wu.myshopify.com/api/mcp"
ORDER_MCP_URL == "https://cnx-demo-mcp-server.onrender.com/api/mcp"

\* the JSON-RPC reply whose result.content[0].text is the given text
McpEnvelope(text) ==
    JObj(<<<<"result", JObj(<<<<"content", JList(<<JObj(<<<<"text", JText(text)>>>>)>>)>>>>)>>>>)

ToolResponses(payloads) ==
    {[kind |-> "transport", body |-> JNull],
     [kind |-> "status", body |-> JNull],
     [kind |-> "not_json", body |-> JNull],
     [kind |-> "json", body |-> JObj(<<<<"error", JStr("method not found")>>>>)],
     [kind |-> "json", body |-> JObj(<<<<"result", JObj(<<<<"content", JList(<<>>)>>>>)>>>>)],
     [kind |-> "json", body |-> McpEnvelope(<<PROSE>>)]}
    \cup {[kind |-> "json", body |-> McpEnvelope(json_dumps(v))] : v \in payloads}

\* call_mcp_server handing back the response body whenever the body is JSON
call_mcp_server_returns_body(resp) ==
    IF resp.kind # "json" THEN JObj(<<<<"error", JStr("MCP server error")>>>>)
    ELSE resp.body

call_mcp_server(resp) ==
    IF resp.kind = "transport" THEN JObj(<<<<"error", JStr("MCP server error: ConnectionError")>>>>)
    ELSE IF resp.kind = "status" THEN JObj(<<<<"error", JStr("MCP server error: HTTPError")>>>>)
    ELSE IF resp.kind = "not_json"
    THEN JObj(<<<<"error", JStr("MCP server error: JSONDecodeError")>>>>)
    ELSE LET result == resp.body
         IN IF ~isinstance_dict(result)
            THEN JObj(<<<<"error", JStr("MCP server error: TypeError")>>>>)
            ELSE IF Has(result, "result") /\ isinstance_dict(Lookup(result, "result"))
                    /\ Has(Lookup(result, "result"), "content")
            THEN LET content == Lookup(Lookup(result, "result"), "content")
                 IN IF content[1] = "list" /\ Len(content[2]) > 0
                       /\ isinstance_dict(content[2][1]) /\ Has(content[2][1], "text")
                       /\ Lookup(content[2][1], "text")[1] = "text"
                    THEN LET parsed == json_loads(Lookup(content[2][1], "text")[2])
                         IN IF parsed.ok THEN parsed.value
                            ELSE JObj(<<<<"error",
                                        JStr("MCP server error: JSONDecodeError")>>>>)
                    ELSE JObj(<<<<"error", JStr("Invalid MCP response format")>>>>)
            ELSE JObj(<<<<"error", JStr("Invalid MCP response format")>>>>)

\* no envelope yet; no handler locals
NoEnvelope == [kind |-> "none"]
NoLocal == [args |-> JNull, raw |-> JNull]

\* the record appended to toolCalls for one invocation
ToolCall(url, tool_name, arguments, resp, result) ==
    [url |-> url, name |-> tool_name, arguments |-> arguments, response |-> resp,
     result |-> result]

(***************************************************************************)
(* What a node hands back to the orchestrator: a state update              *)
(* {field: value, "final_response": json.dumps(value)}, or None.           *)
(***************************************************************************)
node_return(field, value) ==
    [none |-> FALSE, upd |-> (field :> value) @@ ("final_response" :> json_dumps(value))]
none_return == [none |-> TRUE, upd |-> ("final_response" :> <<>>)]

\* the envelope of the except clause of process_user_message (api)
error_envelope(e) ==
    [kind |-> "envelope",
     intent |-> JStr("error"),
     intent_details |-> JObj(<<<<"error", JStr(e)>>>>),
     final_response |->
         json_dumps(JObj(<<<<"error", JFmt("Workflow processing failed: ", JStr(e))>>>>)),
     full_state |-> [error |-> JStr(e)]]

\* The node's return value reaches the orchestrator.  api: state.update(result),
\* which raises TypeError on None and lands in the except clause.  workflow: the
\* graph merges the update into the state, and writes nothing for None.
Finish(ret) ==
    IF ~ret.none
    THEN /\ state' = ret.upd @@ state
         /\ updates' = updates + 1
         /\ pc' = "handled"
         /\ envelope' = envelope
    ELSE IF impl = "api"
    THEN /\ pc' = "done"
         /\ envelope' = error_envelope("TypeError")
         /\ UNCHANGED <<state, updates>>
    ELSE /\ pc' = "handled"
         /\ UNCHANGED <<state, updates, envelope>>

(***************************************************************************)
(* Product Search handler.                                                 *)
(***************************************************************************)
SEARCH_CONTEXT_TEMPLATE == "Search Query: {message}\nFiltering Guidelines: ..."

Product(id, price) ==
    JObj(<<<<"id", JInt(id)>>,
           <<"variants", JList(<<JObj(<<<<"price", JStr(price)>>>>)>>)>>>>)
P1500 == Product("1", "1500")
P1800 == Product("2", "1800")
P2200 == Product("3", "2200")

\* member lists the query-parsing completion is drawn from
QueryBodies ==
    {<<<<"query", JStr("shirts")>>,
       <<"filters", JObj(<<<<"price", JObj(<<<<"max", JInt("2000")>>>>)>>,
                          <<"design", JList(<<JStr("floral")>>)>>>>)>>>>,
     <<<<"query", JStr("shirts")>>,
       <<"filters", JObj(<<<<"availability", JBool(TRUE)>>,
                          <<"sizes", JList(<<JStr("M")>>)>>,
                          <<"colors", JList(<<JStr("red")>>)>>>>)>>>>,
     <<<<"query", JStr("shirts")>>, <<"filters", JStr("cheap")>>>>,
     <<<<"filters", JObj(<<<<"price", JStr("2000")>>>>)>>>>,
     <<<<"query", JStr("shirts")>>, <<"filters", JNull>>>>}

\* what the catalog tool can answer
SearchPayloads ==
    {JObj(<<<<"products", JList(<<P1500, P1800, P2200>>)>>>>),
     JObj(<<<<"products", JList(<<>>)>>>>),
     JObj(<<<<"error", JStr("rate limited")>>>>),
     JList(<<P1500>>)}

\* member lists the filter/reformat completion is drawn from
FilterBodies ==
    {<<<<"products", JList(<<P1500, P1800>>)>>>>,
     <<<<"products", JList(<<>>)>>>>,
     <<<<"note", JStr("nothing matched")>>>>}

\* llm_parse_query
llm_parse_query(user_query, llm_out) ==
    LET p == find_braces_json(llm_out)
    IN IF p.kind = "dict" THEN p.value
       ELSE JObj(<<<<"query", JMsg(user_query)>>, <<"filters", JObj(<<>>)>>>>)

\* the message of the outermost except clause of product_search_node
ProductSearchExceptPrefix ==
    IF impl = "workflow" THEN "Product search failed: " ELSE "Product search error: "

\* search_arguments forwarding the design filter as well
search_arguments_with_design(user_message, parsed) ==
    LET base == JObj(<<<<"query", Get(parsed, "query", JMsg(user_message))>>,
                       <<"context", JFmt(SEARCH_CONTEXT_TEMPLATE, JMsg(user_message))>>>>)
        got == Get(parsed, "filters", JObj(<<>>))
        filters == IF Truthy(got) THEN got ELSE JObj(<<>>)
    IN IF ~isinstance_dict(filters)
       THEN [ok |-> FALSE, arguments |-> JNull]
       ELSE LET withPrice ==
                    IF Has(filters, "price") /\ isinstance_dict(Lookup(filters, "price"))
                    THEN SetItem(base, "price", Lookup(filters, "price"))
                    ELSE base
                withAvail ==
                    IF Has(filters, "availability")
                    THEN SetItem(withPrice, "availability", Lookup(filters, "availability"))
                    ELSE withPrice
                withDesign ==
                    IF Has(filters, "design")
                    THEN SetItem(withAvail, "design", Lookup(filters, "design"))
                    ELSE withAvail
            IN [ok |-> TRUE, arguments |-> withDesign]

\* product_search_node, steps 1-2: the arguments of the catalog call;
\* ok = FALSE when building them raises (filters is not a mapping)
search_arguments(user_message, parsed) ==
    LET mcp_query == Get(parsed, "query", JMsg(user_message))
        context == JFmt(SEARCH_CONTEXT_TEMPLATE, JMsg(user_message))
        base == JObj(<<<<"query", mcp_query>>, <<"context", context>>>>)
        got == Get(parsed, "filters", JObj(<<>>))
        filters == IF Truthy(got) THEN got ELSE JObj(<<>>)
    IN IF ~isinstance_dict(filters)
       THEN [ok |-> FALSE, arguments |-> JNull]
       ELSE LET withPrice ==
                    IF Has(filters, "price") /\ isinstance_dict(Lookup(filters, "price"))
                    THEN SetItem(base, "price", Lookup(filters, "price"))
                    ELSE base
                withAvail ==
                    IF Has(filters, "availability")
                    THEN SetItem(withPrice, "availability", Lookup(filters, "availability"))
                    ELSE withPrice
            IN [ok |-> TRUE, arguments |-> withAvail]

\* product_search_node up to the catalog call: parse the query, build the
\* arguments, print them; an exception on the way is answered by the outer except
ProductSearchParse ==
    /\ pc = "product_search"
    /\ \E resp \in LLMResponses(QueryBodies), encoding \in StdoutEncodings :
         LET llm_out == call_gemini_llm(resp)
             parsed == llm_parse_query(state.user_message, llm_out)
             a == search_arguments(state.user_message, parsed)
             exc == IF ~a.ok THEN "AttributeError"
                    ELSE IF print_raises(encoding, state.user_message)
                    THEN "UnicodeEncodeError"
                    ELSE ""
         IN /\ llmCalls' = Append(llmCalls, <<"parse_query", find_braces_json(llm_out).kind,
                                             find_braces_json(llm_out).value>>)
            /\ IF exc = ""
               THEN /\ local' = [local EXCEPT !.args = a.arguments]
                    /\ pc' = "ps_tool"
                    /\ UNCHANGED <<state, updates, envelope>>
               ELSE /\ Finish(node_return("products",
                        JObj(<<<<"error", JFmt(ProductSearchExceptPrefix, JStr(exc))>>>>)))
                    /\ local' = local
    /\ UNCHANGED <<impl, toolCalls, handlers>>
    /\ genai_api_key' = GEMINI_API_KEY

\* raw_products: mcp_result["products"] when the result is a dict with that key
raw_products_of(mcp_result) ==
    IF isinstance_dict(mcp_result) /\ Has(mcp_result, "products")
    THEN Lookup(mcp_result, "products")
    ELSE JList(<<>>)

\* search_short_circuit going on to the second pass whatever the tool returned
search_short_circuit_never(mcp_result) == [stop |-> FALSE, value |-> JNull]

\* product_search_node after the catalog call: the error envelope for a tool
\* error, the debug envelope for no products, or stop = FALSE to go on
search_short_circuit(mcp_result) ==
    IF isinstance_dict(mcp_result) /\ ~Has(mcp_result, "products") /\ Has(mcp_result, "error")
    THEN [stop |-> TRUE,
          value |-> JObj(<<<<"error", JFmt("Product search failed: ",
                                           Lookup(mcp_result, "error"))>>>>)]
    ELSE IF ~Truthy(raw_products_of(mcp_result))
    THEN [stop |-> TRUE,
          value |-> JObj(<<<<"products", JList(<<>>)>>,
                           <<"debug",
                             JObj(<<<<"message", JStr("No products returned from MCP server")>>,
                                    <<"mcp_response", mcp_result>>>>)>>>>)]
    ELSE [stop |-> FALSE, value |-> JNull]

\* product_search_node: the catalog call and the short-circuit on an error or on
\* no products
ProductSearchTool ==
    /\ pc = "ps_tool"
    /\ \E resp \in ToolResponses(SearchPayloads) :
         LET mcp_result == call_mcp_server(resp)
             short == search_short_circuit(mcp_result)
         IN /\ toolCalls' = Append(toolCalls,
                 ToolCall(PRODUCT_SEARCH_MCP_URL, "search_shop_catalog", local.args, resp,
                          mcp_result))
            /\ IF short.stop
               THEN /\ Finish(node_return("products", short.value))
                    /\ local' = NoLocal
               ELSE /\ local' = [args |-> JNull, raw |-> raw_products_of(mcp_result)]
                    /\ pc' = "ps_format"
                    /\ UNCHANGED <<state, updates, envelope>>
    /\ UNCHANGED <<impl, llmCalls, handlers>>
    /\ UNCHANGED genai_api_key

\* filter_or_raw answering a failed second pass with an empty product list
filter_or_empty(p, raw_products) ==
    IF p.kind = "dict" THEN p.value ELSE JObj(<<<<"products", JList(<<>>)>>>>)

\* the result of the second pass: the object the LLM returned, or the raw
\* products when json_match is None or json.loads raises
filter_or_raw(p, raw_products) ==
    IF p.kind = "dict" THEN p.value ELSE JObj(<<<<"products", raw_products>>>>)

\* product_search_node: the second LLM pass and the fallback to the raw products
ProductSearchFormat ==
    /\ pc = "ps_format"
    /\ \E resp \in LLMResponses(FilterBodies) :
         LET p == extract_json(call_gemini_llm(resp))
         IN /\ llmCalls' = Append(llmCalls, <<"filter", p.kind>>)
            /\ Finish(node_return("products", filter_or_raw(p, local.raw)))
    /\ local' = NoLocal
    /\ UNCHANGED <<impl, toolCalls, handlers>>
    /\ genai_api_key' = GEMINI_API_KEY

(***************************************************************************)
(* Python's int(): [ok, value, exc].                                       *)
(***************************************************************************)
\* the decimal numerals of the model, and what int() reads from a string
Numerals == {"0", "1", "2", "7", "42", "42910880890963", "5904242344019"}
int_of_str(s) ==
    CASE s \in Numerals -> s
      [] s = " 42 " -> "42"
      [] s = "0042" -> "42"
      [] OTHER -> ""
\* the integer part of the floats of the model
trunc_float(x) ==
    CASE x = "0.0" -> "0"
      [] x = "0.5" -> "0"
      [] x = "0.9" -> "0"
      [] x = "2.5" -> "2"
      [] OTHER -> "0"

py_int(v) ==
    CASE v[1] = "int" -> [ok |-> TRUE, value |-> v, exc |-> ""]
      [] v[1] = "bool" ->
            [ok |-> TRUE, value |-> JInt(IF v[2] THEN "1" ELSE "0"), exc |-> ""]
      [] v[1] = "float" -> [ok |-> TRUE, value |-> JInt(trunc_float(v[2])), exc |-> ""]
      [] v[1] = "str" ->
            IF int_of_str(v[2]) # ""
            THEN [ok |-> TRUE, value |-> JInt(int_of_str(v[2])), exc |-> ""]
            ELSE [ok |-> FALSE, value |-> JNull, exc |-> "ValueError"]
      [] OTHER -> [ok |-> FALSE, value |-> JNull, exc |-> "TypeError"]

(***************************************************************************)
(* Order Creation handler.                                                 *)
(***************************************************************************)
\* member lists the order-extraction completion is drawn from
OrderBodies ==
    {<<<<"variant_id", JStr("42910880890963")>>, <<"email", JStr("test@example.com")>>,
       <<"quantity", JInt("2")>>, <<"needs_more_info", JBool(FALSE)>>>>,
     <<<<"variant_id", JStr("")>>, <<"email", JStr("")>>, <<"needs_more_info", JBool(TRUE)>>>>,
     <<<<"variant_id", JStr("blue shirt")>>, <<"email", JStr("test@example.com")>>,
       <<"needs_more_info", JBool(FALSE)>>>>,
     <<<<"variant_id", JInt("42910880890963")>>, <<"needs_more_info", JBool(FALSE)>>>>,
     <<<<"variant_id", JInt("42910880890963")>>, <<"email", JNull>>,
       <<"needs_more_info", JBool(FALSE)>>>>,
     <<<<"variant_id", JStr("42910880890963")>>, <<"email", JStr("test@example.com")>>>>,
     <<<<"product_id", JStr("7")>>, <<"product_name", JStr("shirt")>>,
       <<"quantity", JInt("2")>>, <<"found_product", JBool(TRUE)>>>>,
     <<<<"found_product", JBool(TRUE)>>, <<"needs_more_info", JBool(FALSE)>>,
       <<"variant_id", JInt("7")>>, <<"email", JStr("test@example.com")>>,
       <<"quantity", JInt("0")>>>>}

\* what the order server can answer to create_order
OrderPayloads ==
    {JObj(<<<<"id", JInt("5904242344019")>>, <<"name", JStr("#1001")>>,
            <<"total_price", JStr("1500.00")>>>>),
     JObj(<<<<"error", JStr("variant not found")>>>>),
     JList(<<>>)}

\* member lists the order reformat completion is drawn from
OrderFormatBodies ==
    {<<<<"order_created",
         JObj(<<<<"id", JStr("5904242344019")>>, <<"order_id", JStr("#1001")>>,
                <<"product", JStr("shirt")>>, <<"total_paid", JStr("1500.00 INR")>>,
                <<"message", JStr("Your order has been placed successfully!")>>>>)>>>>,
     <<<<"error", JStr("variant not found")>>>>}

\* order_creation_node up to the tool call: what the extraction outcome leads to.
\* kind "none": the node falls off its end (json_match is None); "error": an
\* error_response is returned; "call": the tool is invoked with payload.
order_creation_plan(p) ==
    IF p.kind = "nomatch" THEN [kind |-> "none", value |-> JNull]
    ELSE IF p.kind = "raise"
    THEN [kind |-> "error",
          value |-> JObj(<<<<"error", JFmt("Order parsing failed: ", JStr("JSONDecodeError"))>>>>)]
    ELSE IF impl = "workflow"
    THEN LET order_info == p.value
         IN IF Truthy(Get(order_info, "needs_more_info", JBool(TRUE)))
            THEN [kind |-> "error",
                  value |-> JObj(<<<<"error",
                      JStr("Missing information. Please provide variant ID and email address to create an order.")>>>>)]
            ELSE IF ~Has(order_info, "variant_id")
            THEN [kind |-> "error",
                  value |-> JObj(<<<<"error", JFmt("Order parsing failed: ", JStr("KeyError"))>>>>)]
            ELSE IF ~py_int(Lookup(order_info, "variant_id")).ok
            THEN [kind |-> "error",
                  value |-> JObj(<<<<"error", JFmt("Order parsing failed: ",
                      JStr(py_int(Lookup(order_info, "variant_id")).exc))>>>>)]
            ELSE IF ~Has(order_info, "email")
            THEN [kind |-> "error",
                  value |-> JObj(<<<<"error", JFmt("Order parsing failed: ", JStr("KeyError"))>>>>)]
            ELSE [kind |-> "call",
                  value |-> JObj(<<<<"order", JObj(<<
                      <<"line_items", JList(<<JObj(<<
                          <<"variant_id", py_int(Lookup(order_info, "variant_id")).value>>,
                          <<"quantity", Get(order_info, "quantity", JInt("1"))>>>>)>>)>>,
                      <<"customer", JObj(<<<<"email", Lookup(order_info, "email")>>>>)>>,
                      <<"financial_status", JStr("paid")>>,
                      <<"test", JBool(TRUE)>>>>)>>>>)]
    ELSE LET product_info == p.value
         IN IF ~Truthy(Get(product_info, "found_product", JBool(FALSE)))
            THEN [kind |-> "error",
                  value |-> JObj(<<<<"error", JStr("Please specify a product to order.")>>>>)]
            ELSE [kind |-> "call",
                  value |-> JObj(<<
                      <<"product_id", Get(product_info, "product_id", JStr("1"))>>,
                      <<"quantity", Get(product_info, "quantity", JInt("1"))>>,
                      <<"product_name", Get(product_info, "product_name", JStr("Product"))>>>>)]

\* reformat_or_raw answering a failed reformat with an error instead of the raw result
reformat_or_error(p, raw) ==
    IF p.kind = "dict" THEN p.value
    ELSE JObj(<<<<"error", JStr("Formatting failed")>>>>)

\* the result of a reformat pass: the parsed object, or the raw tool result when
\* json_match is None or json.loads raises
reformat_or_raw(p, raw) == IF p.kind = "dict" THEN p.value ELSE raw

\* order_creation_node: the extraction LLM call and everything before the tool call
OrderCreationExtract ==
    /\ pc = "order_creation"
    /\ \E resp \in LLMResponses(OrderBodies) :
         LET p == extract_json(call_gemini_llm(resp))
             plan == order_creation_plan(p)
         IN /\ llmCalls' = Append(llmCalls, <<"extract_order", p.kind, p.value>>)
            /\ IF plan.kind = "call"
               THEN /\ local' = [local EXCEPT !.args = plan.value]
                    /\ pc' = "oc_tool"
                    /\ UNCHANGED <<state, updates, envelope>>
               ELSE /\ Finish(IF plan.kind = "none" THEN none_return
                              ELSE node_return("order_result", plan.value))
                    /\ local' = local
    /\ UNCHANGED <<impl, toolCalls, handlers>>
    /\ genai_api_key' = GEMINI_API_KEY

\* order_creation_node: the create_order call
OrderCreationTool ==
    /\ pc = "oc_tool"
    /\ \E resp \in ToolResponses(OrderPayloads) :
         LET raw_order_result == call_mcp_server(resp)
         IN /\ toolCalls' = Append(toolCalls,
                 ToolCall(ORDER_MCP_URL, "create_order", local.args, resp,
                          raw_order_result))
            /\ local' = [args |-> JNull, raw |-> raw_order_result]
    /\ pc' = "oc_format"
    /\ UNCHANGED <<impl, state, llmCalls, handlers, updates, envelope>>
    /\ UNCHANGED genai_api_key

\* order_creation_node: the reformat LLM pass and the fallback to the raw result
OrderCreationFormat ==
    /\ pc = "oc_format"
    /\ \E resp \in LLMResponses(OrderFormatBodies) :
         LET p == extract_json(call_gemini_llm(resp))
         IN /\ llmCalls' = Append(llmCalls, <<"format_order", p.kind>>)
            /\ Finish(node_return("order_result", reformat_or_raw(p, local.raw)))
    /\ local' = NoLocal
    /\ UNCHANGED <<impl, toolCalls, handlers>>
    /\ genai_api_key' = GEMINI_API_KEY

(***************************************************************************)
(* Order Status handler.                                                   *)
(***************************************************************************)
\* member lists the order-id extraction completion is drawn from
StatusBodies ==
    {<<<<"order_id", JStr("5904242344019")>>, <<"found", JBool(TRUE)>>>>,
     <<<<"order_id", JInt("5904242344019")>>, <<"found", JBool(TRUE)>>>>,
     <<<<"order_id", JStr("#5904242344019")>>, <<"found", JBool(TRUE)>>>>,
     <<<<"order_id", JNull>>, <<"found", JBool(TRUE)>>>>,
     <<<<"order_id", JFloat("2.5")>>, <<"found", JBool(TRUE)>>>>,
     <<<<"order_id", JStr("5904242344019")>>>>,
     <<<<"found", JBool(TRUE)>>>>,
     <<<<"order_id", JStr("")>>, <<"found", JBool(FALSE)>>>>}

\* what the order server can answer to get_order_status
StatusPayloads ==
    {JObj(<<<<"id", JInt("5904242344019")>>, <<"financial_status", JStr("paid")>>,
            <<"fulfillment_status", JNull>>>>),
     JObj(<<<<"error", JStr("Order not found")>>>>),
     JStr("pending")}

\* member lists the status reformat completion is drawn from
StatusFormatBodies ==
    {<<<<"order_id", JInt("5904242344019")>>, <<"status", JStr("paid")>>,
       <<"fulfillment_status", JStr("Not yet shipped")>>>>,
     <<<<"error", JStr("Order not found")>>>>,
     <<<<"status", JStr("paid")>>, <<"user_intent", JStr("order_tracking")>>>>}

\* order_status_plan taking an omitted found for true
order_status_plan_found_by_default(p) ==
    IF p.kind # "dict" THEN [kind |-> "none", value |-> JNull]
    ELSE LET order_info == p.value
         IN IF ~Truthy(Get(order_info, "found", JBool(TRUE)))
            THEN [kind |-> "error",
                  value |-> JObj(<<<<"error",
                                   JStr("Please provide a valid order ID to check status.")>>>>)]
            ELSE IF ~Has(order_info, "order_id") \/ ~py_int(Lookup(order_info, "order_id")).ok
            THEN [kind |-> "error",
                  value |-> JObj(<<<<"error", JStr("Invalid order ID format.")>>>>)]
            ELSE [kind |-> "call",
                  value |-> JObj(<<<<"order_id",
                                     py_int(Lookup(order_info, "order_id")).value>>>>)]

\* order_status_node up to the tool call; kinds as in order_creation_plan
order_status_plan(p) ==
    IF p.kind = "nomatch" THEN [kind |-> "none", value |-> JNull]
    ELSE IF p.kind = "raise"
    THEN [kind |-> "error",
          value |-> JObj(<<<<"error",
                           JFmt("Order ID parsing failed: ", JStr("JSONDecodeError"))>>>>)]
    ELSE LET order_info == p.value
         IN IF ~Truthy(Get(order_info, "found", JBool(FALSE)))
            THEN [kind |-> "error",
                  value |-> JObj(<<<<"error",
                                   JStr("Please provide a valid order ID to check status.")>>>>)]
            ELSE IF ~Has(order_info, "order_id")
            THEN [kind |-> "error",
                  value |-> JObj(<<<<"error",
                                   JFmt("Order ID parsing failed: ", JStr("KeyError"))>>>>)]
            ELSE IF ~py_int(Lookup(order_info, "order_id")).ok
            THEN [kind |-> "error",
                  value |-> JObj(<<<<"error", JStr("Invalid order ID format.")>>>>)]
            ELSE [kind |-> "call",
                  value |-> JObj(<<<<"order_id",
                                     py_int(Lookup(order_info, "order_id")).value>>>>)]

\* order_status_node: the extraction LLM call and everything before the tool call
OrderStatusExtract ==
    /\ pc = "order_status"
    /\ \E resp \in LLMResponses(StatusBodies) :
         LET p == extract_json(call_gemini_llm(resp))
             plan == order_status_plan(p)
         IN /\ llmCalls' = Append(llmCalls, <<"extract_order_id", p.kind, p.value>>)
            /\ IF plan.kind = "call"
               THEN /\ local' = [local EXCEPT !.args = plan.value]
                    /\ pc' = "os_tool"
                    /\ UNCHANGED <<state, updates, envelope>>
               ELSE /\ Finish(IF plan.kind = "none" THEN none_return
                              ELSE node_return("order_status", plan.value))
                    /\ local' = local
    /\ UNCHANGED <<impl, toolCalls, handlers>>
    /\ genai_api_key' = GEMINI_API_KEY

\* OrderStatusTool calling again instead of going on
OrderStatusToolRetrying ==
    /\ pc = "os_tool"
    /\ \E resp \in ToolResponses(StatusPayloads) :
         toolCalls' = Append(toolCalls,
             ToolCall(ORDER_MCP_URL, "get_order_status", local.args, resp,
                      call_mcp_server(resp)))
    /\ UNCHANGED <<impl, pc, state, local, llmCalls, handlers, updates, envelope>>
    /\ UNCHANGED genai_api_key

\* order_status_node: the get_order_status call; api returns the raw result at once
OrderStatusTool ==
    /\ pc = "os_tool"
    /\ \E resp \in ToolResponses(StatusPayloads) :
         LET raw_status_result == call_mcp_server(resp)
         IN /\ toolCalls' = Append(toolCalls,
                 ToolCall(ORDER_MCP_URL, "get_order_status", local.args, resp,
                          raw_status_result))
            /\ IF impl = "workflow"
               THEN /\ local' = [args |-> JNull, raw |-> raw_status_result]
                    /\ pc' = "os_format"
                    /\ UNCHANGED <<state, updates, envelope>>
               ELSE /\ Finish(node_return("order_status", raw_status_result))
                    /\ local' = NoLocal
    /\ UNCHANGED <<impl, llmCalls, handlers>>
    /\ UNCHANGED genai_api_key

\* order_status_node (workflow): the reformat LLM pass and the fallback to the raw result
OrderStatusFormat ==
    /\ pc = "os_format"
    /\ \E resp \in LLMResponses(StatusFormatBodies) :
         LET p == extract_json(call_gemini_llm(resp))
         IN /\ llmCalls' = Append(llmCalls, <<"format_status", p.kind>>)
            /\ Finish(node_return("order_status", reformat_or_raw(p, local.raw)))
    /\ local' = NoLocal
    /\ UNCHANGED <<impl, toolCalls, handlers>>
    /\ genai_api_key' = GEMINI_API_KEY

(***************************************************************************)
(* Info Search handler.  workflow: RAG over the vector index with a static *)
(* keyword fallback; api: one LLM completion.                              *)
(***************************************************************************)
ReturnPolicyKeywords ==
    <<<<"r", "e", "t", "u", "r", "n">>, <<"r", "e", "f", "u", "n", "d">>,
      <<"e", "x", "c", "h", "a", "n", "g", "e">>, <<"p", "o", "l", "i", "c", "y">>>>
ContactKeywords ==
    <<<<"c", "o", "n", "t", "a", "c", "t">>, <<"p", "h", "o", "n", "e">>,
      <<"e", "m", "a", "i", "l">>, <<"s", "u", "p", "p", "o", "r", "t">>,
      <<"a", "d", "d", "r", "e", "s", "s">>, <<"r", "e", "a", "c", "h">>>>
OffersKeywords ==
    <<<<"o", "f", "f", "e", "r">>, <<"d", "i", "s", "c", "o", "u", "n", "t">>,
      <<"s", "a", "l", "e">>, <<"p", "r", "o", "m", "o", "t", "i", "o", "n">>,
      <<"d", "e", "a", "l">>, <<"c", "o", "u", "p", "o", "n">>>>
\* offer_keywords of the second-pass template choice
OfferTemplateKeywords ==
    <<<<"o", "f", "f", "e", "r">>, <<"o", "f", "f", "e", "r", "s">>,
      <<"d", "i", "s", "c", "o", "u", "n", "t">>, <<"s", "a", "l", "e">>,
      <<"f", "l", "a", "s", "h">>, <<"d", "e", "a", "l">>, <<"c", "o", "u", "p", "o", "n">>,
      <<"m", "e", "m", "b", "e", "r", "s", "h", "i", "p">>,
      <<"l", "o", "y", "a", "l", "t", "y">>>>

\* rag_fallback without the note
rag_fallback_no_note(user_q, reason) ==
    JObj(<<<<"info", JObj(<<<<"topic", JStr("general")>>,
                            <<"answer", JStr("I can help with return policy, contact details, or current offers. Please specify your question.")>>>>)>>>>)

\* the except branch of info_search_node (workflow): the canned answer by topic
rag_fallback(user_q, reason) ==
    LET message_lower == lower(user_q)
        topic == IF AnyIn(ReturnPolicyKeywords, message_lower) THEN "return_policy"
                 ELSE IF AnyIn(ContactKeywords, message_lower) THEN "contact_details"
                 ELSE IF AnyIn(OffersKeywords, message_lower) THEN "current_offers"
                 ELSE "general"
        answer == CASE topic = "return_policy" ->
                         "Our standard return/exchange window is 7-14 days ..."
                    [] topic = "contact_details" ->
                         "You can reach support via email at support@example.com ..."
                    [] topic = "current_offers" ->
                         "Current promotions vary by season. ..."
                    [] OTHER ->
                         "I can help with return policy, contact details, or current offers. Please specify your question."
    IN JObj(<<<<"info", JObj(<<
           <<"topic", JStr(topic)>>,
           <<"answer", JStr(answer)>>,
           <<"note", JFmt("RAG not available; showing fallback information. Error: ",
                          JStr(reason))>>>>)>>>>)

\* the environment info_search_node reads, and how connecting and probing can end
Envs == [google_key : BOOLEAN, pinecone_key : BOOLEAN, pinecone_index : BOOLEAN]
SetupOutcomes == {"client_error", "probe_error", "empty", "ok"}

\* rag_setup_failure going on to the retrieval chain when the probe finds nothing
rag_setup_failure_ignore_empty(env, outcome) ==
    IF ~env.google_key THEN "Google API key not found (GOOGLE_API_KEY or GEMINI_API_KEY)"
    ELSE IF ~env.pinecone_key THEN "Pinecone API key not found (PINECONE_API_KEY)"
    ELSE IF ~env.pinecone_index THEN "Pinecone index not found (PINECONE_INDEX)"
    ELSE IF outcome \in {"client_error", "probe_error"} THEN "ConnectionError"
    ELSE ""

\* the reason info_search_node gives up before the retrieval chain, "" if it goes on
rag_setup_failure(env, outcome) ==
    IF ~env.google_key THEN "Google API key not found (GOOGLE_API_KEY or GEMINI_API_KEY)"
    ELSE IF ~env.pinecone_key THEN "Pinecone API key not found (PINECONE_API_KEY)"
    ELSE IF ~env.pinecone_index THEN "Pinecone index not found (PINECONE_INDEX)"
    ELSE IF outcome \in {"client_error", "probe_error"} THEN "ConnectionError"
    ELSE IF outcome = "empty" THEN "Pinecone index appears to be empty"
    ELSE ""

\* info_search_node (workflow): the print of the query ahead of the try block
\* raises out of the node, out of graph.invoke and out of process_user_message
InfoSearchPrintRaises ==
    /\ pc = "info_search"
    /\ impl = "workflow"
    /\ \E encoding \in StdoutEncodings : print_raises(encoding, state.user_message)
    /\ pc' = "raised"
    /\ UNCHANGED <<impl, state, local, llmCalls, toolCalls, handlers, updates, envelope>>
    /\ UNCHANGED genai_api_key

\* info_search_node (workflow): credentials, clients and the one-item probe search
InfoSearchSetup ==
    /\ pc = "info_search"
    /\ impl = "workflow"
    /\ \E env \in Envs, outcome \in SetupOutcomes, google_key \in GoogleKeys :
         LET reason == rag_setup_failure(env, outcome)
             configured == env.google_key /\ env.pinecone_key /\ env.pinecone_index
             probed == configured /\ outcome # "client_error"
         IN /\ llmCalls' = IF probed THEN Append(llmCalls, <<"probe", outcome>>) ELSE llmCalls
            /\ genai_api_key' = IF configured THEN google_key ELSE genai_api_key
            /\ IF reason = ""
               THEN /\ pc' = "is_chain"
                    /\ UNCHANGED <<state, updates, envelope>>
               ELSE Finish(node_return("info_result", rag_fallback(state.user_message, reason)))
    /\ UNCHANGED <<impl, local, toolCalls, handlers>>

Doc(source) == JObj(<<<<"metadata", JObj(<<<<"source", source>>>>)>>>>)
\* what the retrieval chain can return
ChainResults ==
    {JObj(<<<<"result", JText(<<PROSE, WS>>)>>>>),
     JObj(<<<<"result", JText(<<>>)>>,
            <<"source_documents",
              JList(<<Doc(JStr("faq.pdf")), Doc(JStr("policy.pdf")), Doc(JStr("faq.pdf")),
                      Doc(JNull)>>)>>>>),
     JObj(<<<<"result", JNull>>>>),
     JObj(<<<<"query", JStr("q")>>>>)}

\* info_search_node (workflow): build and run the retrieval chain
InfoSearchChain ==
    /\ pc = "is_chain"
    /\ \/ /\ llmCalls' = Append(llmCalls, <<"rag_chain", "raise">>)
          /\ Finish(node_return("info_result",
                                rag_fallback(state.user_message, "chain failed")))
          /\ local' = local
       \/ \E result \in ChainResults :
            /\ llmCalls' = Append(llmCalls, <<"rag_chain", "ok", result, JMsg(state.user_message)>>)
            /\ local' = [args |-> JNull, raw |-> result]
            /\ pc' = "is_format"
            /\ UNCHANGED <<state, updates, envelope>>
    /\ UNCHANGED <<impl, toolCalls, handlers>>
    /\ UNCHANGED genai_api_key

\* sources: the truthy metadata["source"] of each document, in order
RECURSIVE doc_sources(_)
doc_sources(docs) ==
    IF Len(docs) = 0 THEN <<>>
    ELSE LET doc == Head(docs)
             meta == Get(doc, "metadata", JNull)
             src == IF Truthy(meta) THEN Get(meta, "source", JNull) ELSE JNull
         IN (IF Truthy(src) THEN <<src>> ELSE <<>>) \o doc_sources(Tail(docs))

\* dedup keeping every entry, repeats included
dedup_keep_all(xs) == xs

\* list(dict.fromkeys(xs)): drop repeats, keep the first of each
RECURSIVE dedup(_)
dedup(xs) ==
    IF Len(xs) = 0 THEN <<>>
    ELSE LET init == dedup(SubSeq(xs, 1, Len(xs) - 1))
             last == xs[Len(xs)]
         IN IF \E i \in 1..Len(init) : init[i] = last THEN init ELSE Append(init, last)

\* branded_answer keeping the raw answer whatever the second pass returned
branded_answer_raw_only(out, raw_answer) == py_strip(raw_answer[2])

\* answer: (call_gemini_llm(format_prompt) or raw_answer).strip()
branded_answer(out, raw_answer) ==
    py_strip(IF Len(out) > 0 THEN out ELSE raw_answer[2])

\* info_search_node (workflow): the branded second pass and the payload
InfoSearchFormat ==
    /\ pc = "is_format"
    /\ \E resp \in LLMResponses({}) :
         LET result == local.raw
             raw_answer == Get(result, "result", JText(<<>>))
             out == call_gemini_llm(resp)
             answer == branded_answer(out, raw_answer)
             docs == Get(result, "source_documents", JList(<<>>))
             sources == doc_sources(IF Truthy(docs) THEN docs[2] ELSE <<>>)
             template == IF AnyIn(OfferTemplateKeywords, lower(state.user_message))
                         THEN "format_info_offers" ELSE "format_info_general"
             payload == JObj(<<
                 <<"info", JObj(<<<<"topic", JStr("general")>>,
                                  <<"answer", JText(py_strip(answer))>>>>)>>,
                 <<"sources", JList(dedup(sources))>>>>)
             \* formatted is not a string: formatted.strip() raises
             strip_raises == Len(out) = 0 /\ raw_answer[1] # "text"
         IN /\ llmCalls' = Append(llmCalls,
                  <<template, IF strip_raises THEN "raise"
                              ELSE IF Len(out) > 0 THEN "text" ELSE "empty", JText(out)>>)
            /\ Finish(node_return("info_result",
                                  IF strip_raises
                                  THEN rag_fallback(state.user_message, "AttributeError")
                                  ELSE payload))
    /\ local' = NoLocal
    /\ UNCHANGED <<impl, toolCalls, handlers>>
    /\ genai_api_key' = GEMINI_API_KEY

\* info_search_node (api): one completion, returned as it is
InfoSearchApi ==
    /\ pc = "info_search"
    /\ impl = "api"
    /\ \E resp \in LLMResponses({}) :
         LET response == call_gemini_llm(resp)
         IN /\ llmCalls' = Append(llmCalls, <<"answer_info", IF Len(response) > 0 THEN "text" ELSE "empty">>)
            /\ Finish(node_return("info_result",
                                  JObj(<<<<"info_response", JText(response)>>,
                                         <<"query", JMsg(state.user_message)>>>>)))
    /\ UNCHANGED <<impl, local, toolCalls, handlers>>
    /\ genai_api_key' = GEMINI_API_KEY

(***************************************************************************)
(* Workflow Orchestrator: create the state, classify, dispatch.            *)
(***************************************************************************)
Init ==
    /\ impl \in {"workflow", "api"}
    /\ pc = "start"
    /\ state \in {[user_message |-> m] : m \in Messages}
    /\ local = NoLocal
    /\ llmCalls = <<>>
    /\ toolCalls = <<>>
    /\ handlers = <<>>
    /\ updates = 0
    /\ envelope = NoEnvelope
    /\ genai_api_key = "unset"

\* the analyze_intent node: one LLM call, one state update
Classify ==
    /\ pc = "start"
    /\ \E resp \in LLMResponses(IntentBodies) :
         LET r == analyze_user_intent(state, call_gemini_llm(resp))
         IN /\ state' = r.update @@ state
            /\ llmCalls' = Append(llmCalls,
                                  <<"classify", IF r.fallback THEN "fallback" ELSE "dict">>)
    /\ updates' = updates + 1
    /\ pc' = "classified"
    /\ UNCHANGED <<impl, local, toolCalls, handlers, envelope>>
    /\ genai_api_key' = GEMINI_API_KEY

\* the conditional edge out of analyze_intent: enter the handler the intent selects
Dispatch ==
    /\ pc = "classified"
    /\ pc' = route_by_intent(state)
    /\ handlers' = Append(handlers, route_by_intent(state))
    /\ UNCHANGED <<impl, state, local, llmCalls, toolCalls, updates, envelope>>
    /\ UNCHANGED genai_api_key

\* process_user_message after the handler: build the envelope.  workflow adds
\* user_intent to a final_response that parses as a JSON object.
Assemble ==
    /\ pc = "handled"
    /\ LET intent == IF "intent" \in DOMAIN state THEN state.intent ELSE JNull
           details == IF "intent_details" \in DOMAIN state THEN state.intent_details ELSE JNull
           final_response ==
               IF "final_response" \in DOMAIN state THEN state.final_response ELSE <<>>
           parsed == json_loads(final_response)
           augmented_final ==
               IF parsed.ok /\ isinstance_dict(parsed.value)
               THEN json_dumps(SetDefault(parsed.value, "user_intent", intent))
               ELSE final_response
       IN envelope' =
            IF impl = "workflow"
            THEN [kind |-> "envelope",
                  user_message |-> state.user_message,
                  intent |-> intent,
                  intent_details |-> details,
                  final_response |-> augmented_final,
                  full_state |-> state,
                  user_intent |-> intent]
            ELSE [kind |-> "envelope",
                  intent |-> state.intent,
                  intent_details |-> details,
                  final_response |-> final_response,
                  full_state |-> state]
    /\ pc' = "done"
    /\ UNCHANGED <<impl, state, local, llmCalls, toolCalls, handlers, updates>>
    /\ UNCHANGED genai_api_key

Next ==
    \/ Classify
    \/ Dispatch
    \/ ProductSearchParse
    \/ ProductSearchTool
    \/ ProductSearchFormat
    \/ OrderCreationExtract
    \/ OrderCreationTool
    \/ OrderCreationFormat
    \/ OrderStatusExtract
    \/ OrderStatusTool
    \/ OrderStatusFormat
    \/ InfoSearchPrintRaises
    \/ InfoSearchSetup
    \/ InfoSearchChain
    \/ InfoSearchFormat
    \/ InfoSearchApi
    \/ Assemble

Spec == Init /\ [][Next]_vars

\* a run goes on while a node is pending: every external call returns or fails,
\* and the graph then runs the next node
\* of app.invoke: the graph moves a run that has not ended to another position
RunPositions ==
    {"start", "classified", "product_search", "ps_tool", "ps_format", "order_creation",
     "oc_tool", "oc_format", "order_status", "os_tool", "os_format", "info_search",
     "is_chain", "is_format", "handled", "done", "raised"}
Advance ==
    /\ pc \notin {"done", "raised"}
    /\ \E position \in RunPositions \ {pc} : pc' = position
LiveSpec == Spec /\ WF_pc(Advance)

(***************************************************************************)
(* The Language-Model Gateway on its own: one call on each backend outcome. *)
(***************************************************************************)
GatewayInit ==
    /\ impl \in {"workflow", "api"}
    /\ pc = "gw_call"
    /\ state = [user_message |-> <<>>]
    /\ local \in {[args |-> r, raw |-> JNull] : r \in GeminiOutcomes}
    /\ llmCalls = <<>>
    /\ toolCalls = <<>>
    /\ handlers = <<>>
    /\ updates = 0
    /\ envelope = NoEnvelope
    /\ genai_api_key = "unset"

GatewayCall ==
    /\ pc = "gw_call"
    /\ local' = [local EXCEPT !.raw = JText(call_gemini_llm(local.args))]
    /\ pc' = "gw_done"
    /\ UNCHANGED <<impl, state, llmCalls, toolCalls, handlers, updates, envelope>>
    /\ genai_api_key' = IF impl = "workflow" /\ local.args.kind = "no_key"
                        THEN genai_api_key ELSE GEMINI_API_KEY

GatewaySpec == GatewayInit /\ [][GatewayCall]_vars

(***************************************************************************)
(* analyze_user_intent alone: the message and the completion it is given    *)
(* are held in local.args, the update it returns is merged into state.      *)
(***************************************************************************)
IntentInit ==
    /\ impl \in {"workflow", "api"}
    /\ pc = "intent_call"
    /\ state \in {[user_message |-> m] :
                      m \in {MsgBuyRefund, MsgShirtsUnder, MsgTrackParcel, MsgReturnPolicy}}
    /\ local \in {[args |-> t, raw |-> JNull] : t \in Texts(IntentBodies)}
    /\ llmCalls = <<>>
    /\ toolCalls = <<>>
    /\ handlers = <<>>
    /\ updates = 0
    /\ envelope = NoEnvelope
    /\ genai_api_key = "unset"

IntentCall ==
    /\ pc = "intent_call"
    /\ state' = analyze_user_intent(state, local.args).update @@ state
    /\ updates' = updates + 1
    /\ pc' = "intent_done"
    /\ UNCHANGED <<impl, local, llmCalls, toolCalls, handlers, envelope, genai_api_key>>

IntentSpec == IntentInit /\ [][IntentCall]_vars

(***************************************************************************)
(* The order creation handlers of the two files on one extraction          *)
(* completion, one after the other: local.args is the completion,          *)
(* local.raw what the workflow file's handler does with it (return         *)
(* nothing, return an error, or call create_order with arguments), and     *)
(* state.api_plan what the api file's handler does with it.                *)
(***************************************************************************)
BothInit ==
    /\ impl = "workflow"
    /\ pc = "both_workflow"
    /\ state = [user_message |-> MsgAddToCart]
    /\ local \in {[args |-> t, raw |-> JNull] : t \in Texts(OrderBodies)}
    /\ llmCalls = <<>>
    /\ toolCalls = <<>>
    /\ handlers = <<>>
    /\ updates = 0
    /\ envelope = NoEnvelope
    /\ genai_api_key = "unset"

\* order_creation_node of langgraph_agent_workflow.py
BothWorkflow ==
    /\ pc = "both_workflow"
    /\ impl = "workflow"
    /\ local' = [local EXCEPT !.raw = order_creation_plan(extract_json(local.args))]
    /\ impl' = "api"
    /\ pc' = "both_api"
    /\ UNCHANGED <<state, llmCalls, toolCalls, handlers, updates, envelope, genai_api_key>>

\* order_creation_node of api/index.py
BothApi ==
    /\ pc = "both_api"
    /\ impl = "api"
    /\ state' = [api_plan |-> order_creation_plan(extract_json(local.args))] @@ state
    /\ pc' = "both_done"
    /\ UNCHANGED <<impl, local, llmCalls, toolCalls, handlers, updates, envelope,
                   genai_api_key>>

BothNext == BothWorkflow \/ BothApi

BothSpec == BothInit /\ [][BothNext]_vars

(***************************************************************************)
(* The HTTP endpoint POST /agent-assistant/ around the orchestrator.  The  *)
(* request is held in local.args until process_user_message is called; the *)
(* HTTP response is left in envelope.                                      *)
(***************************************************************************)
\* entries of request.messages: dicts of strings, either key may be absent
RequestEntries ==
    {JObj(<<<<"source", JStr("user")>>, <<"content", JMsg(MsgRupeeDeals)>>>>),
     JObj(<<<<"source", JStr("user")>>, <<"content", JMsg(<<"B", "U", "Y">>)>>>>),
     JObj(<<<<"source", JStr("user")>>, <<"content", JMsg(<<>>)>>>>),
     JObj(<<<<"source", JStr("user")>>>>),
     JObj(<<<<"source", JStr("assistant")>>, <<"content", JMsg(MsgReturnPolicy)>>>>),
     JObj(<<<<"content", JMsg(MsgReturnPolicy)>>>>)}
Requests == {JList(ms) : ms \in BoundedSeq(RequestEntries, MaxTextLen - 1)}

\* the content of the last entry whose source is "user": [found, content]
RECURSIVE last_user_message(_)
last_user_message(messages) ==
    IF Len(messages) = 0 THEN [found |-> FALSE, content |-> JNull]
    ELSE LET msg == messages[Len(messages)]
         IN IF Get(msg, "source", JNull) = JStr("user")
            THEN [found |-> TRUE, content |-> Get(msg, "content", JMsg(<<>>))]
            ELSE last_user_message(SubSeq(messages, 1, Len(messages) - 1))

\* raise HTTPException(status_code, detail) inside the try block of
\* agent_assistant: HTTPException is an Exception, so the except clause
\* catches it and raises the 500 of its own
http_exception_in_try(status_code, detail) ==
    [kind |-> "http", status |-> 500,
     detail |-> JFmt("Agent processing failed: ", JStr(detail))]

EndpointInit ==
    /\ impl \in {"workflow", "api"}
    /\ pc = "http_request"
    /\ state = <<>>
    /\ local \in {[args |-> r, raw |-> JNull] : r \in Requests}
    /\ llmCalls = <<>>
    /\ toolCalls = <<>>
    /\ handlers = <<>>
    /\ updates = 0
    /\ envelope = NoEnvelope
    /\ genai_api_key = "unset"

\* agent_assistant up to the call of process_user_message
AgentAssistantReceive ==
    /\ pc = "http_request"
    /\ LET messages == local.args[2]
           last == last_user_message(messages)
       IN IF Len(messages) = 0
          THEN /\ envelope' = http_exception_in_try(400, "No messages provided")
               /\ pc' = "responded"
               /\ UNCHANGED <<state, local>>
          ELSE IF ~last.found \/ Len(last.content[2]) = 0
          THEN /\ envelope' = http_exception_in_try(400, "No user message found")
               /\ pc' = "responded"
               /\ UNCHANGED <<state, local>>
          ELSE /\ state' = [user_message |-> last.content[2]]
               /\ local' = NoLocal
               /\ pc' = "start"
               /\ envelope' = envelope
    /\ UNCHANGED <<impl, llmCalls, toolCalls, handlers, updates>>
    /\ UNCHANGED genai_api_key

\* agent_assistant after process_user_message: the AgentResponse, or the 500
\* of the except clause when the orchestrator raised or the response model
\* rejects a field
AgentAssistantRespond ==
    /\ pc \in {"done", "raised"}
    /\ envelope' =
          IF pc = "raised"
          THEN http_exception_in_try(500, "UnicodeEncodeError")
          ELSE IF envelope.intent[1] \notin {"str", "null"}
                  \/ envelope.intent_details[1] \notin {"obj", "null"}
          THEN http_exception_in_try(500, "ValidationError")
          ELSE [kind |-> "http", status |-> 200,
                chat_message |-> envelope.final_response,
                intent |-> envelope.intent,
                intent_details |-> envelope.intent_details,
                inner_messages |-> <<envelope.full_state>>,
                user_intent |-> envelope.intent]
    /\ pc' = "responded"
    /\ UNCHANGED <<impl, state, local, llmCalls, toolCalls, handlers, updates>>
    /\ UNCHANGED genai_api_key

EndpointNext ==
    \/ AgentAssistantReceive
    \/ Next
    \/ AgentAssistantRespond

EndpointSpec == EndpointInit /\ [][EndpointNext]_vars

(***************************************************************************)
(* Two runs of process_user_message in one process, interleaved at the     *)
(* steps that touch the process-wide genai configuration.  pc and local    *)
(* hold one entry for each run: the position of the run, and its handler   *)
(* with the keys that were configured when its completions were requested. *)
(* A call of call_gemini_llm is two steps: genai.configure(api_key=...)    *)
(* and model.generate_content(...), which builds its client from the       *)
(* configuration of that moment.                                           *)
(***************************************************************************)
Runs == {1, 2}
ConcurrentHandlers == {"product_search", "info_search"}

ConcurrentInit ==
    /\ impl \in {"workflow", "api"}
    /\ pc = [r \in Runs |-> "classify_configure"]
    /\ state = [r \in Runs |-> [user_message |-> <<>>]]
    /\ local \in [Runs -> {[handler |-> h, used |-> <<>>] : h \in ConcurrentHandlers}]
    /\ llmCalls = <<>>
    /\ toolCalls = <<>>
    /\ handlers = <<>>
    /\ updates = 0
    /\ envelope = NoEnvelope
    /\ genai_api_key = "unset"

\* the position after a step of a run; handler_configure and handler_generate
\* are the call of call_gemini_llm of the handler's LLM stage
next_position(position, handler) ==
    CASE position = "classify_configure" -> "classify_generate"
      [] position = "classify_generate" ->
            IF handler = "info_search" /\ impl = "workflow" THEN "info_configure"
            ELSE "handler_configure"
      [] position = "info_configure" -> "handler_configure"
      [] position = "handler_configure" -> "handler_generate"
      [] position = "handler_generate" -> "done"

\* call_gemini_llm: genai.configure(api_key=GEMINI_API_KEY)
RunConfigure(r) ==
    /\ pc[r] \in {"classify_configure", "handler_configure"}
    /\ genai_api_key' = GEMINI_API_KEY
    /\ pc' = [pc EXCEPT ![r] = next_position(pc[r], local[r].handler)]
    /\ UNCHANGED <<impl, state, local, llmCalls, toolCalls, handlers, updates, envelope>>

\* call_gemini_llm: model.generate_content(prompt)
RunGenerate(r) ==
    /\ pc[r] \in {"classify_generate", "handler_generate"}
    /\ local' = [local EXCEPT ![r].used = Append(@, genai_api_key)]
    /\ pc' = [pc EXCEPT ![r] = next_position(pc[r], local[r].handler)]
    /\ UNCHANGED <<impl, state, llmCalls, toolCalls, handlers, updates, envelope,
                   genai_api_key>>

\* info_search_node (workflow): genai.configure(api_key=google_key)
RunInfoConfigure(r) ==
    /\ pc[r] = "info_configure"
    /\ \E google_key \in GoogleKeys : genai_api_key' = google_key
    /\ pc' = [pc EXCEPT ![r] = next_position(pc[r], local[r].handler)]
    /\ UNCHANGED <<impl, state, local, llmCalls, toolCalls, handlers, updates, envelope>>

ConcurrentNext ==
    \E r \in Runs : RunConfigure(r) \/ RunGenerate(r) \/ RunInfoConfigure(r)

ConcurrentSpec == ConcurrentInit /\ [][ConcurrentNext]_vars

(***************************************************************************)
(* The chat UI (agent_ui.py).  state is st.session_state: products,         *)
(* filters, instructions, selected_product, awaiting_email, order_result.   *)
(* Each action is one run of the script after a widget was used; local      *)
(* tells which, how many of its requests were answered and whether it ran   *)
(* to its end (an uncaught exception ends it, the session stays as it is);  *)
(* envelope is the last response body the run read.  The conversation list  *)
(* is not kept: the endpoint reads only its latest user entry.              *)
(***************************************************************************)
UiProduct ==
    JObj(<<<<"title", JStr("Shirt")>>,
           <<"variants", JList(<<JObj(<<<<"variant_id", JInt("42910880890963")>>,
                                        <<"price", JStr("1500")>>>>)>>)>>>>)
PriceFilter ==
    JObj(<<<<"label", JStr("Price")>>,
           <<"values", JObj(<<<<"input_options", JList(<<
               JObj(<<<<"label", JStr("0 - 5000")>>,
                      <<"input", JObj(<<<<"price",
                          JObj(<<<<"min", JInt("0")>>, <<"max", JInt("5000")>>>>)>>>>)>>>>)
           >>)>>>>)>>>>)

\* results of the product search handler
UiProductResults ==
    {JObj(<<<<"products", JList(<<UiProduct, P1500>>)>>>>),
     JObj(<<<<"products", JList(<<>>)>>>>),
     JObj(<<<<"products", JList(<<>>)>>, <<"available_filters", JList(<<PriceFilter>>)>>>>),
     JObj(<<<<"products", JList(<<UiProduct>>)>>,
            <<"available_filters", JList(<<PriceFilter>>)>>>>),
     JObj(<<<<"error", JStr("Product search failed: rate limited")>>>>)}

\* the AgentResponse of agent_assistant for a run whose handler wrote value
\* into field: chat_message is the envelope's final_response, inner_messages
\* is the list holding full_state
agent_response(field, value, intent) ==
    [kind |-> "http", status |-> 200,
     chat_message |-> IF impl = "workflow"
                      THEN json_dumps(SetDefault(value, "user_intent", JStr(intent)))
                      ELSE json_dumps(value),
     intent |-> JStr(intent),
     intent_details |-> JObj(<<>>),
     inner_messages |-> <<(field :> value)
                          @@ [user_message |-> <<>>, intent |-> JStr(intent),
                              intent_details |-> JObj(<<>>),
                              final_response |-> json_dumps(value)]>>,
     user_intent |-> JStr(intent)]

\* what requests.post(API_URL, ...) can come back with: an exception, the
\* {"detail": ...} body of a 500, or an AgentResponse
UiResponses ==
    {[kind |-> "transport"], http_exception_in_try(500, "UnicodeEncodeError")}
    \cup {agent_response("products", v, "product_search") : v \in UiProductResults}
    \cup {agent_response("order_result", v, "order_creation") : v \in
            {JObj(<<<<"order_created", JObj(<<<<"id", JStr("5904242344019")>>>>)>>>>)}}

\* the for loop over data.get("inner_messages", [])
RECURSIVE apply_inner_messages(_, _)
apply_inner_messages(acc, msgs) ==
    IF Len(msgs) = 0 THEN acc
    ELSE LET msg == Head(msgs)
             next == [products |-> IF "products" \in DOMAIN msg
                                   THEN msg["products"] ELSE acc.products,
                      filters |-> IF "available_filters" \in DOMAIN msg
                                  THEN msg["available_filters"] ELSE acc.filters,
                      instructions |-> IF "instructions" \in DOMAIN msg
                                       THEN msg["instructions"] ELSE acc.instructions]
         IN apply_inner_messages(next, Tail(msgs))

\* products, filters and instructions as the script reads them from a response
\* body: from chat_message when it parses as an object (a missing chat_message
\* or a text that does not parse leaves them empty), then from inner_messages
extract_products(data) ==
    LET parsed == IF "chat_message" \in DOMAIN data THEN json_loads(data.chat_message)
                  ELSE [ok |-> FALSE, value |-> JNull]
        content == IF parsed.ok /\ isinstance_dict(parsed.value)
                   THEN [products |-> Get(parsed.value, "products", JList(<<>>)),
                         filters |-> Get(parsed.value, "available_filters", JList(<<>>)),
                         instructions |-> Get(parsed.value, "instructions", JStr(""))]
                   ELSE [products |-> JList(<<>>), filters |-> JList(<<>>),
                         instructions |-> JStr("")]
    IN apply_inner_messages(content,
          IF "inner_messages" \in DOMAIN data THEN data.inner_messages ELSE <<>>)

\* the six assignments after a response was read
session_after(found) ==
    [products |-> found.products, filters |-> found.filters,
     instructions |-> found.instructions, selected_product |-> JNull,
     awaiting_email |-> FALSE, order_result |-> JNull]

\* re.search(r'(?:under|below|less than)\s*(\d+)', user_query, re.IGNORECASE):
\* whether a keyword is followed, after blanks, by a digit
has_price_limit(user_query) ==
    LET q == lower(user_query)
        Digits == {"0", "1", "2", "3", "4", "5", "6", "7", "8", "9"}
        LimitKeywords ==
            {<<"u", "n", "d", "e", "r">>, <<"b", "e", "l", "o", "w">>,
             <<"l", "e", "s", "s", " ", "t", "h", "a", "n">>}
    IN \E kw \in LimitKeywords, i \in 1..Len(q), j \in 1..Len(q) :
          /\ i + Len(kw) <= j
          /\ SubSeq(q, i, i + Len(kw) - 1) = kw
          /\ \A k \in (i + Len(kw))..(j - 1) : q[k] = " "
          /\ q[j] \in Digits

input_options(f) == Get(Lookup(f, "values"), "input_options", JList(<<>>))[2]

\* the automatic price filter: the first filter labelled price has an option
\* with a min and a max whose max is at least the limit of the query; ui_float
\* is float(x) of the numbers of the model, price_limit is float(m.group(1))
\* for its queries
auto_filter_applies(filters, user_query) ==
    LET ui_float(x) == CASE x[2] = "0" -> 0
                         [] x[2] = "500" -> 500
                         [] x[2] = "2000" -> 2000
                         [] x[2] = "5000" -> 5000
        price_limit == IF user_query = MsgShirtsUnder THEN 2000 ELSE 500
        is_price_filter(f) == Lookup(f, "label") \in {JStr("Price"), JStr("price")}
    IN
    /\ has_price_limit(user_query)
    /\ \E n \in 1..Len(filters[2]) :
          /\ is_price_filter(filters[2][n])
          /\ \A k \in 1..(n - 1) : ~is_price_filter(filters[2][k])
          /\ \E o \in 1..Len(input_options(filters[2][n])) :
                LET price == Get(Lookup(input_options(filters[2][n])[o], "input"),
                                 "price", JObj(<<>>))
                IN /\ Get(price, "min", JNull) # JNull
                   /\ Get(price, "max", JNull) # JNull
                   /\ ui_float(Lookup(price, "max")) >= price_limit

UiRun(action, answered, completed) ==
    [action |-> action, answered |-> answered, completed |-> completed]

UiInit ==
    /\ impl \in {"workflow", "api"}
    /\ pc = "ui"
    /\ state = session_after([products |-> JList(<<>>), filters |-> JList(<<>>),
                              instructions |-> JStr("")])
    /\ local = UiRun("none", 0, TRUE)
    /\ llmCalls = <<>>
    /\ toolCalls = <<>>
    /\ handlers = <<>>
    /\ updates = 0
    /\ envelope = NoEnvelope
    /\ genai_api_key = "unset"

\* the Send Query button with a non-empty query, the automatic price filter
\* included
UiSendQuery ==
    /\ pc = "ui"
    /\ \E user_query \in {MsgShirtsUnder, MsgRupeeDeals, <<"B", "U", "Y">>}, data \in UiResponses, again \in UiResponses :
         IF data.kind = "transport"
         THEN /\ local' = UiRun("send_query", 0, FALSE)
              /\ UNCHANGED <<state, envelope>>
         ELSE LET found == extract_products(data)
              IN IF ~(~Truthy(found.products) /\ Truthy(found.filters)
                      /\ auto_filter_applies(found.filters, user_query))
                 THEN /\ state' = session_after(found)
                      /\ envelope' = data
                      /\ local' = UiRun("send_query", 1, TRUE)
                 ELSE IF again.kind = "transport" \/ "chat_message" \notin DOMAIN again
                 THEN /\ state' = session_after(found)
                      /\ envelope' = data
                      /\ local' = UiRun("auto_filter",
                                        IF again.kind = "transport" THEN 1 ELSE 2, FALSE)
                 ELSE /\ state' = session_after(extract_products(again))
                      /\ envelope' = again
                      /\ local' = UiRun("auto_filter", 2, TRUE)
    /\ UNCHANGED <<impl, pc, llmCalls, toolCalls, handlers, updates, genai_api_key>>

\* a filter button: shown for every input option of every filter
UiFilterClick ==
    /\ pc = "ui"
    /\ Truthy(state.filters)
    /\ \E n \in 1..Len(state.filters[2]) : Len(input_options(state.filters[2][n])) > 0
    /\ \E data \in UiResponses :
         IF data.kind = "transport" \/ "chat_message" \notin DOMAIN data
         THEN /\ local' = UiRun("filter_click",
                                IF data.kind = "transport" THEN 0 ELSE 1, FALSE)
              /\ UNCHANGED <<state, envelope>>
         ELSE /\ state' = session_after(extract_products(data))
              /\ envelope' = data
              /\ local' = UiRun("filter_click", 1, TRUE)
    /\ UNCHANGED <<impl, pc, llmCalls, toolCalls, handlers, updates, genai_api_key>>

\* enumerate(products): the items of a list, the keys of a dict
products_shown(products) ==
    IF products[1] = "list" THEN products[2]
    ELSE [i \in 1..Len(products[2]) |-> JStr(products[2][i][1])]

\* a Select button of the product display
UiSelectProduct ==
    /\ pc = "ui"
    /\ Truthy(state.products)
    /\ \E idx \in 1..Len(products_shown(state.products)) :
         LET product == products_shown(state.products)[idx]
             selected == IF isinstance_dict(product) THEN product
                         ELSE JObj(<<<<"title", JFmt("Product ", JInt(idx))>>,
                                     <<"data", product>>>>)
         IN state' = [state EXCEPT !.selected_product = selected,
                                   !.awaiting_email = TRUE,
                                   !.order_result = JNull]
    /\ local' = UiRun("select_product", 0, TRUE)
    /\ UNCHANGED <<impl, pc, llmCalls, toolCalls, handlers, updates, envelope,
                   genai_api_key>>

\* the Confirm Order button with a non-empty email
UiConfirmOrder ==
    /\ pc = "ui"
    /\ state.awaiting_email
    /\ Truthy(state.selected_product)
    /\ \E data \in UiResponses :
         LET product == state.selected_product
             variants == Get(product, "variants", JNull)
             key_error == \/ Truthy(variants) /\ ~Has(variants[2][1], "variant_id")
                          \/ ~Has(product, "title")
         IN IF key_error
            THEN /\ local' = UiRun("confirm_order", 0, FALSE)
                 /\ UNCHANGED <<state, envelope>>
            ELSE IF data.kind = "transport" \/ "chat_message" \notin DOMAIN data
            THEN /\ local' = UiRun("confirm_order",
                                   IF data.kind = "transport" THEN 0 ELSE 1, FALSE)
                 /\ UNCHANGED <<state, envelope>>
            ELSE /\ state' = [state EXCEPT !.order_result = JText(data.chat_message),
                                           !.awaiting_email = FALSE]
                 /\ envelope' = data
                 /\ local' = UiRun("confirm_order", 1, TRUE)
    /\ UNCHANGED <<impl, pc, llmCalls, toolCalls, handlers, updates, genai_api_key>>

UiNext ==
    \/ UiSendQuery
    \/ UiFilterClick
    \/ UiSelectProduct
    \/ UiConfirmOrder

UiSpec == UiInit /\ [][UiNext]_vars

(***************************************************************************)
(* Properties.                                                             *)
(***************************************************************************)
Intents == {JStr("product_search"), JStr("order_creation"), JStr("order_status"),
            JStr("info_search")}
ResultFields == {"products", "order_result", "order_status", "info_result"}
LastLLMCall == llmCalls[Len(llmCalls)]

\* C1: process_user_message returns an envelope, and its final_response parses
\* as JSON, whatever the LLM and the tools answered.
C1_FinalResponseIsJson ==
    pc = "done" => json_loads(envelope.final_response).ok

\* C2: process_user_message never raises; a run in which an exception occurred
\* ends with the envelope of intent "error" whose final_response is an error object.
C2_NeverRaises ==
    /\ pc # "raised"
    /\ (pc = "done" /\ impl = "api" /\ updates < 2) =>
          /\ envelope.intent = JStr("error")
          /\ json_loads(envelope.final_response).ok
          /\ Has(json_loads(envelope.final_response).value, "error")

\* the result field of the handler an intent is dispatched to
FieldOfIntent(intent) ==
    IF intent = JStr("order_creation") THEN "order_result"
    ELSE IF intent = JStr("order_status") THEN "order_status"
    ELSE IF intent = JStr("info_search") THEN "info_result"
    ELSE "products"

\* C3: at the end of a run exactly one of products, order_result, order_status,
\* info_result is populated, and it is the one that belongs to intent.
C3_ExactlyOneResultField ==
    pc = "done" =>
       /\ "intent" \in DOMAIN state
       /\ {f \in ResultFields : f \in DOMAIN state} = {FieldOfIntent(state.intent)}

\* C4: the classified intent, and the intent of every envelope other than the
\* error envelope, is one of the four intent labels.
C4_IntentInEnum ==
    /\ "intent" \in DOMAIN state => state.intent \in Intents
    /\ (pc = "done" /\ envelope.intent # JStr("error")) => envelope.intent \in Intents

\* the LLM stages and the tool of each handler
StagesOf(h) ==
    CASE h = "product_search" -> {"parse_query", "filter"}
      [] h = "order_creation" -> {"extract_order", "format_order"}
      [] h = "order_status" -> {"extract_order_id", "format_status"}
      [] h = "info_search" ->
            {"probe", "rag_chain", "format_info_offers", "format_info_general", "answer_info"}
ToolOf(h) ==
    CASE h = "product_search" -> {"search_shop_catalog"}
      [] h = "order_creation" -> {"create_order"}
      [] h = "order_status" -> {"get_order_status"}
      [] h = "info_search" -> {}
HandlerPositions(h) ==
    CASE h = "product_search" -> {"product_search", "ps_tool", "ps_format"}
      [] h = "order_creation" -> {"order_creation", "oc_tool", "oc_format"}
      [] h = "order_status" -> {"order_status", "os_tool", "os_format"}
      [] h = "info_search" -> {"info_search", "is_chain", "is_format"}

\* C5: in every run exactly one handler is executed, the one the classified intent
\* selects: order_creation, order_status and info_search go to their own handler,
\* every other intent value to the product search handler.
C5_ExactlyOneHandler ==
    /\ Len(handlers) <= 1
    /\ pc \notin {"start", "classified"} =>
          /\ Len(handlers) = 1
          /\ handlers[1] = (IF state.intent = JStr("order_creation") THEN "order_creation"
                            ELSE IF state.intent = JStr("order_status") THEN "order_status"
                            ELSE IF state.intent = JStr("info_search") THEN "info_search"
                            ELSE "product_search")
          /\ \A i \in 2..Len(llmCalls) : llmCalls[i][1] \in StagesOf(handlers[1])
          /\ \A i \in 1..Len(toolCalls) : toolCalls[i].name \in ToolOf(handlers[1])
          /\ pc \in HandlerPositions(handlers[1]) \cup {"handled", "done", "raised"}

\* C5 witness: a finished run whose unrecognized intent went to product search
C5_Witness ==
    /\ pc = "done"
    /\ state.intent = JStr("greeting")
    /\ handlers = <<"product_search">>
    /\ "products" \in DOMAIN state

\* C6: a run goes start, classified, handled, done: no handler starts before
\* intent is set, the classifier runs once, and the state is mutated exactly
\* twice (classify, handler) before the envelope is assembled.
C6_TwoUpdatesInOrder ==
    /\ pc \notin {"start", "classified"} => "intent" \in DOMAIN state
    /\ Len(SelectSeq(llmCalls, LAMBDA c : c[1] = "classify")) <= 1
    /\ pc = "handled" => updates = 2
    /\ pc = "done" => updates = 2

\* membership of the lower-cased message in a keyword set
HasAny(kws, msg) == \E kw \in kws : Contains(kw, lower(msg))

\* C7: when the LLM output is unusable the intent is decided by keywords of the
\* lower-cased message: buy/purchase/order/add to cart give order_creation; else
\* track/status/order id/tracking give order_status; else an info keyword gives
\* info_search; else product_search.  "buy me a refund" is order_creation.
C7_FallbackPrecedence ==
    (pc # "start" /\ llmCalls[1] = <<"classify", "fallback">>) =>
       LET m == state.user_message
           creation == HasAny({<<"b", "u", "y">>, <<"p", "u", "r", "c", "h", "a", "s", "e">>,
                               <<"o", "r", "d", "e", "r">>,
                               <<"a", "d", "d", " ", "t", "o", " ", "c", "a", "r", "t">>}, m)
           status == HasAny({<<"t", "r", "a", "c", "k">>, <<"s", "t", "a", "t", "u", "s">>,
                             <<"o", "r", "d", "e", "r", " ", "i", "d">>,
                             <<"t", "r", "a", "c", "k", "i", "n", "g">>}, m)
           info == HasAny({InfoKeywords[i] : i \in 1..Len(InfoKeywords)}, m)
       IN /\ creation => state.intent = JStr("order_creation")
          /\ (~creation /\ status) => state.intent = JStr("order_status")
          /\ (~creation /\ ~status /\ info) => state.intent = JStr("info_search")
          /\ (~creation /\ ~status /\ ~info) => state.intent = JStr("product_search")
          /\ m = MsgBuyRefund => state.intent = JStr("order_creation")
          /\ state.intent_details = JObj(<<>>)

\* C7 witness: "buy me a refund" classified by the fallback
C7_Witness ==
    /\ pc = "classified"
    /\ state.user_message = MsgBuyRefund
    /\ llmCalls = <<<<"classify", "fallback">>>>
    /\ state.intent = JStr("order_creation")

\* C8: for "What's the status of order 5904242344019?" the classifier yields
\* order_status, both when the LLM says so and when the keyword fallback decides;
\* the order status handler is dispatched; and with order id 5904242344019
\* extracted, get_order_status is invoked once with {order_id: 5904242344019}
\* (an integer) on the order endpoint.
C8_StatusScenario ==
    (state.user_message = MsgStatusOfOrder /\ pc # "start"
     /\ (llmCalls[1][2] = "fallback" \/ state.intent = JStr("order_status"))) =>
       /\ state.intent = JStr("order_status")
       /\ Len(handlers) = 1 => handlers = <<"order_status">>
       /\ Len(toolCalls) <= 1
       /\ Len(toolCalls) = 1 =>
             /\ toolCalls[1].name = "get_order_status"
             /\ toolCalls[1].url = ORDER_MCP_URL
             /\ toolCalls[1].arguments = JObj(<<<<"order_id", JInt("5904242344019")>>>>)

\* C9: every extraction site takes empty or non-JSON LLM output without raising
\* and yields its documented shape: a fallback intent record, a {query, filters}
\* record, or a handler result with an error object and a final_response.
C9_ExtractionFallbackShape ==
    /\ (pc # "start" /\ llmCalls[1][2] = "fallback") =>
          (pc = "classified" => state.intent \in Intents /\ state.intent_details = JObj(<<>>))
    /\ (pc = "ps_tool" /\ LastLLMCall[2] # "dict") =>
          /\ Lookup(local.args, "query") = JMsg(state.user_message)
          /\ ~Has(local.args, "price") /\ ~Has(local.args, "availability")
    /\ \A site \in {<<"extract_order", "order_result">>, <<"extract_order_id", "order_status">>} :
          (Len(llmCalls) = 2 /\ LastLLMCall[1] = site[1] /\ LastLLMCall[2] # "dict") =>
             /\ pc \in {"handled", "done"}
             /\ site[2] \in DOMAIN state
             /\ Has(state[site[2]], "error")
             /\ "final_response" \in DOMAIN state
             /\ json_loads(state.final_response).ok

\* C10: in the order creation and order status handlers, when the tool was
\* invoked and the reformat pass returns text with no parseable JSON object, the
\* result payload is exactly what the tool gateway returned.
C10_RawPassthrough ==
    \A site \in {<<"format_order", "order_result">>, <<"format_status", "order_status">>} :
       (Len(llmCalls) = 3 /\ LastLLMCall[1] = site[1] /\ LastLLMCall[2] # "dict") =>
          /\ Len(toolCalls) = 1
          /\ pc \in {"handled", "done"}
          /\ site[2] \in DOMAIN state
          /\ state[site[2]] = toolCalls[1].result
          /\ state.final_response = json_dumps(toolCalls[1].result)

\* C10 witness: an order was created, the reformat text did not parse, and the
\* envelope carries the tool's own answer
C10_Witness ==
    /\ pc = "done"
    /\ Len(llmCalls) = 3
    /\ LastLLMCall = <<"format_order", "raise">>
    /\ Len(toolCalls) = 1
    /\ Has(toolCalls[1].result, "id")
    /\ state.order_result = toolCalls[1].result

\* the value the extraction stage of a run parsed, if it parsed one
Extracted(stage) ==
    {llmCalls[i][3] : i \in {j \in 1..Len(llmCalls) :
                              llmCalls[j][1] = stage /\ llmCalls[j][2] = "dict"}}
\* a field that is absent, null or empty
MissingField(info, k) == ~Has(info, k) \/ ~Truthy(Lookup(info, k))

\* C11: in the order creation handler, when the extraction result lacks the
\* variant id or the email, the handler returns an error result and create_order
\* is not invoked in that run.
C11_MissingFieldNoOrder ==
    \A info \in Extracted("extract_order") :
       (MissingField(info, "variant_id") \/ MissingField(info, "email")) =>
          /\ toolCalls = <<>>
          /\ pc \in {"handled", "done"} =>
                /\ "order_result" \in DOMAIN state
                /\ Has(state.order_result, "error")

\* C12: every create_order invocation carries a payload with an order object
\* holding one line item (integer variant id, quantity), the customer email,
\* and the test marker.
C12_CreateOrderPayload ==
    \A i \in 1..Len(toolCalls) :
       toolCalls[i].name = "create_order" =>
          LET a == toolCalls[i].arguments
          IN /\ Keys(a) = {"order"}
             /\ LET order == Lookup(a, "order")
                    items == Lookup(order, "line_items")
                IN /\ Has(order, "line_items") /\ Has(order, "customer")
                   /\ items[1] = "list" /\ Len(items[2]) = 1
                   /\ Has(items[2][1], "variant_id")
                   /\ Lookup(items[2][1], "variant_id")[1] = "int"
                   /\ Has(items[2][1], "quantity")
                   /\ Has(Lookup(order, "customer"), "email")
                   /\ Get(order, "test", JBool(FALSE)) = JBool(TRUE)

\* an order identifier that parses as an integer: an integer, or a numeral string
IsIntegerId(v) == v[1] = "int" \/ (v[1] = "str" /\ int_of_str(v[2]) # "")

\* C13: in the order status handler, when an order is reported found but its
\* identifier is non-numeric, non-integral, null or absent, the handler returns
\* the error "Invalid order ID format." and get_order_status is not invoked.
C13_InvalidOrderId ==
    \A info \in Extracted("extract_order_id") :
       (Truthy(Get(info, "found", JBool(FALSE)))
        /\ (~Has(info, "order_id") \/ ~IsIntegerId(Lookup(info, "order_id")))) =>
          /\ toolCalls = <<>>
          /\ pc \in {"handled", "done"} =>
                /\ "order_status" \in DOMAIN state
                /\ state.order_status = JObj(<<<<"error", JStr("Invalid order ID format.")>>>>)

\* C14: when extraction reports found false or omits found, the order status
\* handler ends the turn with an error result: no tool call, no reformat call,
\* no second extraction.
C14_NotFoundIsTerminal ==
    \A info \in Extracted("extract_order_id") :
       ~Truthy(Get(info, "found", JBool(FALSE))) =>
          /\ toolCalls = <<>>
          /\ Len(llmCalls) = 2
          /\ pc \in {"handled", "done"}
          /\ state.order_status =
                JObj(<<<<"error", JStr("Please provide a valid order ID to check status.")>>>>)
          /\ state.final_response = json_dumps(state.order_status)

\* C14 witness: a finished run whose extraction carried an order id but no found
C14_Witness ==
    /\ pc = "done"
    /\ Extracted("extract_order_id") = {JObj(<<<<"order_id", JStr("5904242344019")>>>>)}
    /\ toolCalls = <<>>
    /\ Has(state.order_status, "error")

\* the log entries of a stage
Logged(stage) == {llmCalls[i][2] : i \in {j \in 1..Len(llmCalls) : llmCalls[j][1] = stage}}
FallbackNote(reason) ==
    JFmt("RAG not available; showing fallback information. Error: ", JStr(reason))
CredentialReasons ==
    {"Google API key not found (GOOGLE_API_KEY or GEMINI_API_KEY)",
     "Pinecone API key not found (PINECONE_API_KEY)",
     "Pinecone index not found (PINECONE_INDEX)"}
\* the static fallback: {info: {topic, answer, note}} and nothing else
IsFallbackPayload(v) ==
    /\ Keys(v) = {"info"}
    /\ Keys(Lookup(v, "info")) = {"topic", "answer", "note"}
    /\ Lookup(Lookup(v, "info"), "topic") \in
          {JStr("return_policy"), JStr("contact_details"), JStr("current_offers"),
           JStr("general")}
NoteOf(v) == Lookup(Lookup(v, "info"), "note")
FormatStages == {"format_info_offers", "format_info_general"}

\* C15: when the RAG path of the info search handler fails (a credential or the
\* index name missing, a client or probe error, an empty index, an exception from
\* retrieval or formatting) the handler returns the static fallback payload
\* {info: {topic, answer, note}} whose note carries the failure reason, and
\* does not raise.
C15_RagFailureFallsBack ==
    (impl = "workflow" /\ handlers = <<"info_search">>) =>
       /\ (Logged("probe") \cap {"empty", "probe_error"} # {} \/ "raise" \in Logged("rag_chain"))
             => pc \in {"handled", "done"}
       /\ pc \in {"handled", "done"} =>
             LET v == state.info_result
                 failed ==
                    \/ Logged("probe") # {"ok"}
                    \/ Logged("rag_chain") # {"ok"}
                    \/ \E t \in FormatStages : "raise" \in Logged(t)
             IN failed =>
                  /\ IsFallbackPayload(v)
                  /\ state.final_response = json_dumps(v)
                  /\ Logged("probe") = {} => NoteOf(v) \in
                        {FallbackNote(r) : r \in CredentialReasons \cup {"ConnectionError"}}
                  /\ Logged("probe") = {"empty"} =>
                        NoteOf(v) = FallbackNote("Pinecone index appears to be empty")
                  /\ Logged("probe") = {"probe_error"} =>
                        NoteOf(v) = FallbackNote("ConnectionError")
                  /\ Logged("rag_chain") = {"raise"} => NoteOf(v) = FallbackNote("chain failed")
                  /\ (\E t \in FormatStages : "raise" \in Logged(t)) =>
                        NoteOf(v) = FallbackNote("AttributeError")

\* C15 witness: the index name is missing and the canned offers answer is returned
C15_Witness ==
    /\ impl = "workflow"
    /\ pc = "done"
    /\ handlers = <<"info_search">>
    /\ Len(llmCalls) = 1
    /\ NoteOf(state.info_result) = FallbackNote("Pinecone index not found (PINECONE_INDEX)")
    /\ Lookup(Lookup(state.info_result, "info"), "topic") = JStr("current_offers")

\* C16: for "What is your return policy?" handled by info search with no
\* vector-index credential (so the index is never probed), the result is the
\* payload {info: {topic: "return_policy", answer: the canned return-policy
\* text, note: "RAG not available..."}}.
C16_ReturnPolicyScenario ==
    (state.user_message = MsgReturnPolicy /\ handlers = <<"info_search">>
     /\ pc \in {"handled", "done"} /\ Logged("probe") = {}) =>
       LET v == state.info_result
       IN /\ IsFallbackPayload(v)
          /\ Lookup(Lookup(v, "info"), "topic") = JStr("return_policy")
          /\ Lookup(Lookup(v, "info"), "answer") =
                JStr("Our standard return/exchange window is 7-14 days ...")
          /\ NoteOf(v)[1] = "fstr"
          /\ NoteOf(v)[2][1] = "RAG not available; showing fallback information. Error: "

\* C17: when the one-item probe search returns nothing, the info search handler
\* takes the static fallback and the retrieval chain is not called in that run.
C17_EmptyIndexSkipsChain ==
    "empty" \in Logged("probe") =>
       /\ Logged("rag_chain") = {}
       /\ \A t \in FormatStages : Logged(t) = {}
       /\ Len(llmCalls) = 2
       /\ pc \in {"handled", "done"}
       /\ IsFallbackPayload(state.info_result)
       /\ NoteOf(state.info_result) = FallbackNote("Pinecone index appears to be empty")

\* C17 witness: a finished run whose probe found the index empty
C17_Witness ==
    /\ pc = "done"
    /\ llmCalls[Len(llmCalls)] = <<"probe", "empty">>
    /\ state.user_message = MsgReturnPolicy
    /\ Lookup(Lookup(state.info_result, "info"), "topic") = JStr("return_policy")

\* result.content[0].text of a response body, where the body has that shape
ContentText(body) ==
    IF /\ IsDict(body) /\ Has(body, "result")
       /\ IsDict(Lookup(body, "result")) /\ Has(Lookup(body, "result"), "content")
    THEN LET content == Lookup(Lookup(body, "result"), "content")
         IN IF /\ content[1] = "list" /\ Len(content[2]) > 0
               /\ IsDict(content[2][1]) /\ Has(content[2][1], "text")
            THEN [present |-> TRUE, text |-> Lookup(content[2][1], "text")[2]]
            ELSE [present |-> FALSE, text |-> <<>>]
    ELSE [present |-> FALSE, text |-> <<>>]

\* C18: call_mcp_server returns on every response: a transport error, a bad
\* status, a body that is not JSON, a body without result.content[0].text, or a
\* text that is not JSON give a mapping with an error key; otherwise the value
\* parsed from result.content[0].text is returned.
C18_McpGatewayTotal ==
    \A i \in 1..Len(toolCalls) :
       LET r == toolCalls[i].response
           v == toolCalls[i].result
           t == ContentText(r.body)
       IN IF r.kind = "json" /\ t.present /\ json_loads(t.text).ok
          THEN v = json_loads(t.text).value
          ELSE IsDict(v) /\ Has(v, "error")

\* C18 witness: one call answered by a body with an empty content list, after
\* which the handler finished
C18_Witness ==
    /\ pc = "done"
    /\ Len(toolCalls) = 1
    /\ toolCalls[1].response.kind = "json"
    /\ ~ContentText(toolCalls[1].response.body).present
    /\ Has(toolCalls[1].response.body, "result")
    /\ toolCalls[1].result = JObj(<<<<"error", JStr("Invalid MCP response format")>>>>)

\* C19: call_gemini_llm returns a string on every backend outcome: the empty
\* string when the key is missing, the client raises, the response has no
\* readable text or the completion is empty, and the completion text otherwise.
C19_GeminiGatewayTotal ==
    pc = "gw_done" =>
       LET r == local.args
           out == local.raw
           with_text == {i \in 1..Len(r.parts) : r.parts[i] # <<>>}
       IN /\ out[1] = "text"
          /\ r.kind # "text" => out[2] = <<>>
          /\ (r.kind = "text" /\ r.text # <<>>) => out[2] = r.text
          /\ (r.kind = "text" /\ r.text = <<>> /\ with_text = {}) => out[2] = <<>>
          /\ (r.kind = "text" /\ r.text = <<>> /\ with_text # {}) =>
                LET first == r.parts[Min(with_text)]
                IN /\ Len(out[2]) >= Len(first)
                   /\ SubSeq(out[2], 1, Len(first)) = first

\* C19 witness: the backend raised and the gateway returned the empty string
C19_Witness ==
    /\ pc = "gw_done"
    /\ local.args.kind = "raise"
    /\ local.raw = JText(<<>>)

\* a request with no entry whose source is "user" (an empty list included)
NoUserEntry(request) ==
    \A i \in 1..Len(request[2]) : Get(request[2][i], "source", JNull) # JStr("user")

\* C20: POST /agent-assistant/ answers 400 when messages is empty or has no
\* entry with source "user", and the orchestrator is not invoked for it.
C20_EndpointRejects ==
    (local.args[1] = "list" /\ NoUserEntry(local.args)) =>
       /\ pc \in {"http_request", "responded"}
       /\ llmCalls = <<>> /\ updates = 0
       /\ pc = "responded" => envelope.status = 400

\* the content of the latest entry of a request whose source is "user"
LatestUserContent(request) ==
    LET users == {i \in 1..Len(request[2]) :
                    Get(request[2][i], "source", JNull) = JStr("user")}
    IN Get(request[2][Max(users)], "content", JMsg(<<>>))[2]

\* C21: for a request with at least one user entry the endpoint calls the
\* orchestrator with the content of the latest user entry, whatever string it
\* is (the empty string included) and whatever the other entries are.
C21_LatestUserTurn ==
    [][(pc = "http_request" /\ ~NoUserEntry(local.args)) =>
          /\ pc' = "start"
          /\ state' = [user_message |-> LatestUserContent(local.args)]]_vars

\* C22: the result of the product search handler is an object with a products
\* key holding a list, or an object with an error key, also when the second
\* LLM pass returns an arbitrary JSON object.
C22_ProductEnvelopeShape ==
    (handlers = <<"product_search">> /\ pc \in {"handled", "done"}) =>
       LET v == state.products
       IN /\ IsDict(v)
          /\ \/ Has(v, "products") /\ Lookup(v, "products")[1] = "list"
             \/ Has(v, "error")
          /\ state.final_response = json_dumps(v)

\* the catalog result of a run that has one
NoProducts(result) ==
    \/ ~IsDict(result)
    \/ ~Has(result, "products")
    \/ ~Truthy(Lookup(result, "products"))

C24_RawProductsFallback ==
    (Logged("filter") # {} /\ "dict" \notin Logged("filter")) =>
       /\ pc \in {"handled", "done"}
       /\ Len(toolCalls) = 1
       /\ state.products =
             JObj(<<<<"products", Lookup(toolCalls[1].result, "products")>>>>)
       /\ state.final_response = json_dumps(state.products)

\* C24 witness: three products came back and the second pass returned nothing
C24_Witness ==
    /\ pc = "done"
    /\ LastLLMCall = <<"filter", "nomatch">>
    /\ state.products = JObj(<<<<"products", JList(<<P1500, P1800, P2200>>)>>>>)

\* the filters the query parse of a run produced, {} when it fell back
ParsedFilters ==
    LET parsed == {llmCalls[i][3] : i \in {j \in 1..Len(llmCalls) :
                       llmCalls[j][1] = "parse_query" /\ llmCalls[j][2] = "dict"}}
    IN IF parsed = {} THEN JObj(<<>>)
       ELSE LET got == Get(CHOOSE x \in parsed : TRUE, "filters", JObj(<<>>))
            IN IF Truthy(got) THEN got ELSE JObj(<<>>)

\* C25: every catalog call has argument keys within {query, context, price,
\* availability}; query and context are always there, price exactly when the
\* extracted price filter is a mapping, availability exactly when the filters
\* have it; sizes, colors and design are never arguments.
C25_SearchArguments ==
    \A i \in 1..Len(toolCalls) :
       toolCalls[i].name = "search_shop_catalog" =>
          LET a == toolCalls[i].arguments
              f == ParsedFilters
          IN /\ Keys(a) \subseteq {"query", "context", "price", "availability"}
             /\ {"query", "context"} \subseteq Keys(a)
             /\ Has(a, "price") <=> (Has(f, "price") /\ IsDict(Lookup(f, "price")))
             /\ Has(a, "price") => Lookup(a, "price") = Lookup(f, "price")
             /\ Has(a, "availability") <=> Has(f, "availability")

\* C25 witness: a price mapping and a design filter were extracted; the call
\* carries the price
C25_Witness ==
    /\ Len(toolCalls) = 1
    /\ Has(ParsedFilters, "design")
    /\ Keys(toolCalls[1].arguments) = {"query", "context", "price"}

\* how often a stage was called in the run
TimesCalled(stage) == Cardinality({i \in 1..Len(llmCalls) : llmCalls[i][1] = stage})
AllStages ==
    {"classify", "parse_query", "filter", "extract_order", "format_order",
     "extract_order_id", "format_status", "probe", "rag_chain", "format_info_offers",
     "format_info_general", "answer_info"}

\* C26: nothing is retried within a run: at most one tool invocation, and every
\* LLM or retrieval stage at most once, whatever the calls return.
C26_NoRetry ==
    /\ Len(toolCalls) <= 1
    /\ \A i \in 1..Len(llmCalls) : llmCalls[i][1] \in AllStages
    /\ \A stage \in AllStages : TimesCalled(stage) <= 1

\* C26 witness: the order server could not be reached, and the run finished
\* with that one tool call and one call of each of its three LLM stages
C26_Witness ==
    /\ pc = "done"
    /\ Len(toolCalls) = 1
    /\ toolCalls[1].response.kind = "transport"
    /\ Len(llmCalls) = 3

\* C27: two runs interleaved in one process do not interfere: every completion
\* of a run is requested under the API key that run's own call configured, since
\* no run alters configuration another run relies on.
C27_NoInterference ==
    \A r \in DOMAIN local :
       \A i \in 1..Len(local[r].used) : local[r].used[i] = GEMINI_API_KEY

\* C28: for "shirts under 2000" and the raw products priced 1500, 1800 and
\* 2200, the result of product search is a product list with the products priced
\* 1500 and 1800 and without the product priced 2200.
C28_PriceFilterScenario ==
    (/\ state.user_message = MsgShirtsUnder
     /\ handlers = <<"product_search">>
     /\ pc \in {"handled", "done"}
     /\ Len(toolCalls) = 1
     /\ toolCalls[1].result = JObj(<<<<"products", JList(<<P1500, P1800, P2200>>)>>>>)) =>
       LET v == state.products
       IN /\ IsDict(v)
          /\ Has(v, "products")
          /\ Lookup(v, "products")[1] = "list"
          /\ LET listed == Lookup(v, "products")[2]
             IN /\ \E i \in 1..Len(listed) : listed[i] = P1500
                /\ \E i \in 1..Len(listed) : listed[i] = P1800
                /\ \A i \in 1..Len(listed) : listed[i] # P2200

\* the documents the retrieval chain of a run returned, and the non-empty source
\* of a document (JNull when it has none)
RetrievedDocs ==
    LET results == {llmCalls[i][3] : i \in {j \in 1..Len(llmCalls) :
                        llmCalls[j][1] = "rag_chain" /\ llmCalls[j][2] = "ok"}}
    IN IF results = {} THEN <<>>
       ELSE LET docs == Get(CHOOSE x \in results : TRUE, "source_documents", JList(<<>>))
            IN IF docs[1] = "list" THEN docs[2] ELSE <<>>
SourceOf(doc) ==
    LET meta == Get(doc, "metadata", JNull)
    IN IF IsDict(meta) /\ Has(meta, "source") /\ Lookup(meta, "source")[1] = "str"
          /\ Lookup(meta, "source") # JStr("")
       THEN Lookup(meta, "source") ELSE JNull
FirstAt(src) == CHOOSE i \in 1..Len(RetrievedDocs) :
                   /\ SourceOf(RetrievedDocs[i]) = src
                   /\ \A j \in 1..(i - 1) : SourceOf(RetrievedDocs[j]) # src

\* C29: on the successful RAG path the sources of the payload are the non-empty
\* sources of the retrieved documents, each once, in the order of their first
\* appearance; the list is empty when no document has a source.
C29_SourcesDeduplicated ==
    (/\ handlers = <<"info_search">>
     /\ pc \in {"handled", "done"}
     /\ \E t \in FormatStages : Logged(t) # {} /\ "raise" \notin Logged(t)) =>
       LET v == state.info_result
           listed == Lookup(v, "sources")[2]
       IN /\ Has(v, "sources")
          /\ Lookup(v, "sources")[1] = "list"
          /\ \A i \in 1..Len(listed) :
                \E d \in 1..Len(RetrievedDocs) : SourceOf(RetrievedDocs[d]) = listed[i]
          /\ \A d \in 1..Len(RetrievedDocs) :
                SourceOf(RetrievedDocs[d]) # JNull =>
                   \E i \in 1..Len(listed) : listed[i] = SourceOf(RetrievedDocs[d])
          /\ \A i, j \in 1..Len(listed) :
                i < j => /\ listed[i] # listed[j]
                         /\ FirstAt(listed[i]) < FirstAt(listed[j])

\* C29 witness: four documents came back, the sources faq.pdf, policy.pdf,
\* faq.pdf and none; the payload lists faq.pdf and policy.pdf
C29_Witness ==
    /\ pc = "done"
    /\ Len(RetrievedDocs) = 4
    /\ Has(state.info_result, "sources")
    /\ Lookup(state.info_result, "sources") = JList(<<JStr("faq.pdf"), JStr("policy.pdf")>>)

\* C30: when every external call returns or fails, every run eventually reaches
\* the done state with an envelope.
C30_RunTerminates == <>(pc = "done" /\ envelope # NoEnvelope)

\* the result of the order handler of a run, by the tool it called
OrderToolResult ==
    IF toolCalls[1].name = "create_order" THEN state.order_result ELSE state.order_status

\* C31: when the create_order or get_order_status call returned an error result,
\* the result of the handler is an error object: it has no order_created record
\* and no order status fields, whatever the reformat completion contains.
C31_ToolErrorStaysError ==
    (/\ Len(toolCalls) = 1
     /\ toolCalls[1].name \in {"create_order", "get_order_status"}
     /\ IsDict(toolCalls[1].result) /\ Has(toolCalls[1].result, "error")
     /\ pc \in {"handled", "done"}) =>
       LET v == OrderToolResult
       IN /\ IsDict(v)
          /\ Has(v, "error")
          /\ Keys(v) \cap {"order_created", "order_id", "status", "fulfillment_status"} = {}

\* the JSON object a completion contains: the span from its first "{" to its
\* last "}", fences and surrounding blanks removed, when that span parses
ObjectIn(t) ==
    LET m == re_search_braces(strip(re_sub_fences(t)))
    IN IF m.found /\ json_loads(m.group).ok
       THEN [usable |-> TRUE, value |-> json_loads(m.group).value]
       ELSE [usable |-> FALSE, value |-> JNull]

\* C32: analyze_user_intent takes the intent from the completion whenever it
\* contains a parseable JSON object, product_search when the object has no intent
\* key whatever the message says, and the keyword intent exactly when there is
\* no {...} span or the span does not parse.
C32_IntentFromObjectOrKeywords ==
    pc = "intent_done" =>
       LET o == ObjectIn(local.args)
       IN /\ (o.usable /\ Has(o.value, "intent")) =>
                state.intent = Lookup(o.value, "intent")
          /\ (o.usable /\ ~Has(o.value, "intent")) =>
                state.intent = JStr("product_search")
          /\ o.usable => state.intent_details = Get(o.value, "details", JObj(<<>>))
          /\ ~o.usable =>
                /\ state.intent = JStr(fallback_intent(state.user_message))
                /\ state.intent_details = JObj(<<>>)

\* C32 witness: "buy me a refund" and a completion that is an object without an
\* intent key; the intent is product_search, not the keyword intent
C32_Witness ==
    /\ pc = "intent_done"
    /\ state.user_message = MsgBuyRefund
    /\ ObjectIn(local.args).usable
    /\ ~Has(ObjectIn(local.args).value, "intent")
    /\ state.intent = JStr("product_search")
    /\ fallback_intent(state.user_message) = "order_creation"

\* C33: given the same message and the same completions, the two files'
\* handlers do the same: here, the order creation handlers given one extraction
\* completion both return nothing, or return the same error, or call
\* create_order with the same arguments.
C33_SameToolInvocation ==
    pc = "both_done" => state.api_plan = local.raw

\* the quantity a create_order call carries, in either argument layout
QuantityOf(arguments) ==
    IF Has(arguments, "order")
    THEN Lookup(Lookup(Lookup(arguments, "order"), "line_items")[2][1], "quantity")
    ELSE Lookup(arguments, "quantity")

\* C34: every create_order call carries a quantity that is an integer of at
\* least 1, whatever quantity the extraction completion has.
C34_QuantityAtLeastOne ==
    \A i \in 1..Len(toolCalls) :
       toolCalls[i].name = "create_order" =>
          LET q == QuantityOf(toolCalls[i].arguments)
          IN q[1] = "int" /\ q[2] \in Numerals \ {"0"}

\* the handler's final_response, "" when the handler wrote none
HandlerFinal(s) == IF "final_response" \in DOMAIN s THEN s.final_response ELSE <<>>

\* C35: the envelope step of process_user_message (workflow file) changes only
\* the returned final_response: a handler final_response that is a JSON object
\* is returned with user_intent = the classified intent added, a user_intent
\* already there kept; any other final_response is returned as it is; the state,
\* and full_state with it, stays as the handler left it.
C35_AugmentOnlyFinalResponse ==
    [][(pc = "handled" /\ impl = "workflow") =>
          LET h == HandlerFinal(state)
              o == json_loads(h)
              a == json_loads(envelope'.final_response)
          IN /\ state' = state
             /\ envelope'.full_state = state
             /\ envelope'.intent = state.intent
             /\ IF o.ok /\ IsDict(o.value)
                THEN /\ a.ok /\ IsDict(a.value)
                     /\ Keys(a.value) = Keys(o.value) \cup {"user_intent"}
                     /\ \A k \in Keys(o.value) : Lookup(a.value, k) = Lookup(o.value, k)
                     /\ ~Has(o.value, "user_intent") =>
                           Lookup(a.value, "user_intent") = state.intent
                ELSE envelope'.final_response = h]_vars

\* C35 witness: the reformat completion of an order status run already had a
\* user_intent; the returned final_response keeps it
C35_Witness ==
    /\ impl = "workflow"
    /\ pc = "done"
    /\ state.intent = JStr("order_status")
    /\ "final_response" \in DOMAIN state
    /\ json_loads(state.final_response).ok
    /\ IsDict(json_loads(state.final_response).value)
    /\ Has(json_loads(state.final_response).value, "user_intent")
    /\ Lookup(json_loads(envelope.final_response).value, "user_intent") =
          JStr("order_tracking")
    /\ envelope.full_state = state

\* the retrieval chain's call and the second pass of a run on the successful
\* RAG path: the query, the raw answer and the completion of the second pass
RagSuccess ==
    /\ handlers = <<"info_search">>
    /\ pc \in {"handled", "done"}
    /\ \E t \in FormatStages : Logged(t) # {} /\ "raise" \notin Logged(t)
RagCall == llmCalls[CHOOSE i \in 1..Len(llmCalls) : llmCalls[i][1] = "rag_chain"]
RagFormatted == llmCalls[CHOOSE i \in 1..Len(llmCalls) : llmCalls[i][1] \in FormatStages][3]
RagRawAnswer == Get(RagCall[3], "result", JText(<<>>))

\* C36 as stated: on the successful RAG path the answer is the completion of the
\* second pass, or the chain's raw answer when that completion is empty; the
\* topic is "general", there is no note, and the chain got the raw message.
C36_AnswerIsReformatOutput ==
    RagSuccess =>
       LET info == Lookup(state.info_result, "info")
       IN /\ Keys(info) = {"topic", "answer"}
          /\ Lookup(info, "topic") = JStr("general")
          /\ RagCall[4] = JMsg(state.user_message)
          /\ Lookup(info, "answer") =
                IF RagFormatted # JText(<<>>) THEN RagFormatted ELSE RagRawAnswer

\* C36 amended: the answer is that text with the blanks at its two ends removed.
C36_AnswerIsTrimmedReformat ==
    RagSuccess =>
       LET info == Lookup(state.info_result, "info")
           chosen == IF RagFormatted # JText(<<>>) THEN RagFormatted ELSE RagRawAnswer
       IN /\ Keys(info) = {"topic", "answer"}
          /\ Lookup(info, "topic") = JStr("general")
          /\ RagCall[4] = JMsg(state.user_message)
          /\ Lookup(info, "answer")[1] = "text"
          /\ LET shown == Lookup(info, "answer")[2]
                 whole == chosen[2]
             IN \E i \in 1..(Len(whole) + 1), j \in 0..Len(whole) :
                   /\ shown = SubSeq(whole, i, j)
                   /\ \A k \in (1..(i - 1)) \cup ((j + 1)..Len(whole)) : whole[k] = WS
                   /\ Len(shown) > 0 => shown[1] # WS /\ shown[Len(shown)] # WS

\* C36 witness: the second pass returned a text with a blank in front; the
\* answer is the text without it
C36_Witness ==
    /\ RagSuccess
    /\ pc = "done"
    /\ Len(RagFormatted[2]) = 2
    /\ RagFormatted[2][1] = WS
    /\ Lookup(Lookup(state.info_result, "info"), "answer") = JText(<<RagFormatted[2][2]>>)
    /\ RagFormatted[2][2] # WS

\* C37: in the session of the chat UI, awaiting_email implies a selected
\* product, and every run whose query was sent and answered (Send Query, a
\* filter button, the automatic price filter) leaves selected_product None,
\* awaiting_email False and order_result None.
C37_SelectionInvariant ==
    /\ [](pc = "ui" => (state.awaiting_email => state.selected_product # JNull))
    /\ [][(pc = "ui" /\ local'.answered > 0
           /\ local'.action \in {"send_query", "filter_click", "auto_filter"}) =>
             /\ state'.selected_product = JNull
             /\ state'.awaiting_email = FALSE
             /\ state'.order_result = JNull]_vars

\* C38: after a Send Query answered by a product search result, the session's
\* products are the list under the products key of the chat_message.
C38_ProductsAreTheList ==
    (/\ pc = "ui"
     /\ local = UiRun("send_query", 1, TRUE)
     /\ envelope.kind = "http"
     /\ "chat_message" \in DOMAIN envelope
     /\ envelope.intent = JStr("product_search")
     /\ Has(json_loads(envelope.chat_message).value, "products")) =>
       /\ state.products[1] = "list"
       /\ state.products = Lookup(json_loads(envelope.chat_message).value, "products")

=============================================================================
